---- MODULE Spec2Model ----
(***************************************************************************)
(* Model of the in-car assistant agent: the tool dispatcher                *)
(* (agent/tool_dispatcher.py), the state tracker (agent/state_tracker.py)  *)
(* and the turn of the agent core (agent/agent_core.py).                   *)
(*                                                                         *)
(* Python dicts are records with the Python keys; None is the record None. *)
(***************************************************************************)
EXTENDS Integers, Sequences, FiniteSets, TLC

VARIABLES
    max_retries,        \* int(os.getenv("RETRY_ATTEMPTS", 3))
    call,               \* the running execute_tool coroutine of the dispatcher
    outcomes,           \* history: what the backend answered to each POST of call
    stubbed,            \* execute_tool is replaced by the stub of the batch test
    b_pc,               \* batch_execute_tools: "idle", "gather" or "done"
    tool_calls,         \* the argument of batch_execute_tools
    tasks,              \* the execute_tool coroutines handed to asyncio.gather
    completed,          \* history: the indices of tasks in the order they finished
    processed_results,  \* the list batch_execute_tools returns
    environment_state,  \* StateTracker.environment_state
    user_preferences,   \* StateTracker.user_preferences
    context_history,    \* StateTracker.context_history
    max_history_size,   \* StateTracker.max_history_size
    state_file,         \* the content of agent_state.json, None while it does not exist
    n_calls,            \* the number of update_context calls made so far
    n_ops,              \* the number of state tracker operations made so far
    only_updates,       \* history: only update_context has touched the history since it was empty
    updates_log,        \* history: the user inputs of the update_context calls since it was empty
    remembered,         \* per custom preference key: never remembered, remembered with a value and not evicted since, or evicted
    last_op,            \* the last call on the state tracker: its name, input, return value, and whether the disk worked
    a_pc,               \* process_input: "idle", or "tools" while the turn runs
    conversation_history, \* AgentCore.conversation_history
    llm_response,       \* what _call_llm returned in the running turn
    applied,            \* the last _update_state_from_tool call: its arguments, the state before, its return
    pending,            \* asyncio.gather: the remember_preference tasks that have not run yet
    gathered,           \* asyncio.gather: the tasks that have finished, with what each returned
    classified_input,   \* the text of the last _classify_intent call
    intent_result,      \* the IntentResult that call returned, None before the first call
    router_call         \* the last route_intent or _extract_parameters call: its arguments and its return value

dvars == <<max_retries, call, outcomes>>

bvars == <<stubbed, b_pc, tool_calls, tasks, completed, processed_results>>

svars == <<environment_state, user_preferences, context_history, max_history_size,
           state_file, n_calls, n_ops, only_updates, updates_log, last_op,
           remembered>>

avars == <<a_pc, conversation_history, llm_response>>

gvars == <<applied>>

cvars == <<pending, gathered>>

rvars == <<classified_input, intent_result>>

xvars == <<router_call>>

vars == <<dvars, bvars, svars, avars, gvars, cvars, rvars, xvars>>


\* ---------------------------------------------------------------- bounds

\* Largest configured number of attempts explored (the default is 3).
MaxRetries == 3

\* Largest number of tool calls in one batch.
MaxBatch == 2

\* Largest max_history_size explored (the default is 100, the trimming test sets 3).
MaxHistorySize == 3

\* Largest number of state tracker operations in one run.
MaxOps == 4

\* Largest number of process_input turns in one run.
MaxTurns == 2

\* Largest number of remember_preference tasks in one asyncio.gather.
MaxTasks == 2

\* Largest number of phrases in one user input.
MaxPhrases == 2

\* ---------------------------------------------------------------- values

None == [NoneType |-> TRUE]

EmptyDict == [k \in {} |-> TRUE]

\* None in a field that otherwise holds a string (Optional[str]).
NoneStr == "None"

\* A lookup that ignores the mapping and always gives the default.
GetDefaultOnly(d, k, default) == default

Get(d, k, default) == IF k \in DOMAIN d THEN d[k] ELSE default

\* ------------------------------------------------------- tool dispatcher

mcp_servers ==
    [sim_actions  |-> {"set_temperature", "set_music", "open_window", "adjust_seat"},
     sim_session  |-> {"start_simulation", "pause_simulation", "reset_simulation", "log_event"},
     conversation |-> {"talk", "remember", "ask_confirm", "summarize"},
     external     |-> {"get_weather", "get_location", "play_spotify", "reroute"}]

MappedTools == UNION {mcp_servers[s] : s \in DOMAIN mcp_servers}

tool_server_map ==
    [t \in MappedTools |-> CHOOSE s \in DOMAIN mcp_servers : t \in mcp_servers[s]]

\* A tool name no backend serves (tests: "unknown_tool").
UnknownTools == {"unknown_tool"}

ToolNames == MappedTools \cup UnknownTools

\* The parameter mappings a caller passes with each tool.
ParameterChoices(t) ==
    CASE t = "set_temperature" -> {EmptyDict, [temperature |-> 24], [temperature |-> 18]}
      [] t \in {"set_music", "play_spotify"} -> {EmptyDict, [track |-> "Test Song"]}
      [] t = "open_window" ->
             {EmptyDict, [side |-> "left", action |-> "open"],
              [side |-> "right", action |-> "close"], [side |-> "both"]}
      [] t = "adjust_seat" -> {EmptyDict, [position |-> "reclined"]}
      [] t = "reroute" -> {EmptyDict, [destination |-> "Istanbul"]}
      [] OTHER -> {EmptyDict}

\* _handle_offline_server: the fixed mock-response table keyed by tool name.
mock_responses(parameters) ==
    [set_temperature |->
        [success |-> TRUE, message |-> "Temperature set",
         current_temperature |-> Get(parameters, "temperature", 22), mock |-> TRUE],
     set_music |->
        [success |-> TRUE, message |-> "Now playing",
         current_track |-> Get(parameters, "track", "Unknown track"), mock |-> TRUE],
     open_window |->
        [success |-> TRUE, message |-> "Window opened",
         window_state |-> <<Get(parameters, "side", "both"), "open">>, mock |-> TRUE],
     adjust_seat |->
        [success |-> TRUE, message |-> "Seat adjusted",
         seat_position |-> Get(parameters, "position", "comfortable"), mock |-> TRUE],
     get_weather |->
        [success |-> TRUE, location |-> Get(parameters, "location", "Yalova, Turkey"),
         temperature |-> 18, condition |-> "Partly cloudy", humidity |-> 65,
         wind_speed |-> 12, mock |-> TRUE],
     get_location |->
        [success |-> TRUE, latitude |-> 41, longitude |-> 29,
         location |-> "Yalova, Turkey", address |-> "Rural area near Yalova",
         mock |-> TRUE],
     play_spotify |->
        [success |-> TRUE, message |-> "Playing on Spotify",
         track |-> Get(parameters, "track", "Unknown track"),
         spotify_url |-> "spotify:track:mock", mock |-> TRUE],
     reroute |->
        [success |-> TRUE, destination |-> Get(parameters, "destination", "Unknown"),
         estimated_time |-> "15 minutes", distance |-> "8.5 km",
         route |-> "Via rural roads", mock |-> TRUE],
     start_simulation |->
        [success |-> TRUE, message |-> "Simulation started", simulation_id |-> "sim",
         status |-> "running", mock |-> TRUE],
     pause_simulation |->
        [success |-> TRUE, message |-> "Simulation paused", status |-> "paused",
         mock |-> TRUE],
     reset_simulation |->
        [success |-> TRUE, message |-> "Simulation reset", status |-> "reset",
         mock |-> TRUE],
     log_event |->
        [success |-> TRUE, message |-> "Event logged", event_id |-> "event",
         mock |-> TRUE],
     talk |->
        [success |-> TRUE, message |-> "Message processed", response |-> "I understand.",
         mock |-> TRUE],
     remember |->
        [success |-> TRUE, message |-> "Preference saved",
         key |-> Get(parameters, "key", "unknown"),
         value |-> Get(parameters, "value", "unknown"), mock |-> TRUE],
     ask_confirm |->
        [success |-> TRUE, message |-> "Confirmation requested",
         prompt |-> Get(parameters, "prompt", "Please confirm"), mock |-> TRUE],
     summarize |->
        [success |-> TRUE, message |-> "Context summarized",
         summary |-> "Recent activities", mock |-> TRUE]]

\* A mock table that ignores the parameters of the request.
_handle_offline_server_defaults(payload) ==
    IF payload.tool \in DOMAIN mock_responses(EmptyDict)
    THEN mock_responses(EmptyDict)[payload.tool]
    ELSE [success |-> FALSE, error |-> "Mock response not available", mock |-> TRUE]

_handle_offline_server(payload) ==
    IF payload.tool \in DOMAIN mock_responses(payload.parameters)
    THEN mock_responses(payload.parameters)[payload.tool]
    ELSE [success |-> FALSE, error |-> "Mock response not available", mock |-> TRUE]

\* What a backend can answer to one POST: status 200, another 2xx status, status
\* 404, another status (raise_for_status raises), httpx.ConnectError, or any other
\* exception of the POST (timeouts included).
Outcomes == {"200", "2xx", "404", "status", "connect_error", "exception"}

\* response.json() of a live backend: a JSON body that carries "success" and
\* answers the request it was sent.
LiveBody(payload, ok) ==
    [success |-> ok, live |-> TRUE, tool |-> payload.tool,
     parameters |-> payload.parameters]

\* str(e) of the exception an attempt ended with.
ErrorText(o) ==
    CASE o = "status" -> "HTTP status error"
      [] o = "not_found" -> "Tool not found in any MCP server"
      [] OTHER -> "request failed"

\* The except clause of execute_tool.
ErrorResult(tool_name, parameters, o) ==
    [success |-> FALSE, error |-> ErrorText(o), tool |-> tool_name,
     parameters |-> parameters]

IdleCall ==
    [pc |-> "idle", tool_name |-> "talk", parameters |-> EmptyDict, attempt |-> 0,
     posts |-> 0, mocks |-> 0, ret |-> None]

Returned(c, value) == [c EXCEPT !.pc = "done", !.ret = value]

\* execute_tool without the lookup of the server.
execute_tool_no_lookup(tool_name, parameters, retries) ==
    [IdleCall EXCEPT !.tool_name = tool_name, !.parameters = parameters, !.pc = "post"]

\* execute_tool up to its first await: the lookup of the server, the payload and
\* the entry into the retry loop of _make_http_request.
execute_tool(tool_name, parameters, retries) ==
    LET c == [IdleCall EXCEPT !.tool_name = tool_name, !.parameters = parameters]
    IN  IF tool_name \notin DOMAIN tool_server_map
        THEN Returned(c, ErrorResult(tool_name, parameters, "not_found"))
        ELSE IF retries <= 0
        THEN Returned(c, None)
        ELSE [c EXCEPT !.pc = "post"]

\* `attempt == max_retries - 1`: the except clauses give up on the last attempt.
IsLastAttemptOffByOne(c, retries) == c.attempt = retries

IsLastAttempt(c, retries) == c.attempt = retries - 1

\* `response.status_code == 404`: the status answered with the mock at once.
IsNotFoundStatusNever(o) == FALSE

IsNotFoundStatus(o) == o = "404"

\* A loop that returns the JSON body of no status.
IsOkStatusNever(o) == FALSE

\* `response.status_code == 200`: the status whose JSON body is returned.
IsOkStatus(o) == o = "200"

\* The next iteration of `for attempt in range(max_retries)`; falling out of the
\* loop ends _make_http_request without a return statement.
NextAttempt(c, retries) ==
    IF c.attempt + 1 < retries
    THEN [c EXCEPT !.attempt = c.attempt + 1]
    ELSE Returned(c, None)

\* One iteration of the retry loop of _make_http_request, from the POST to the
\* return, the raise (caught by execute_tool) or the next iteration.
_make_http_request(c0, o, ok, retries) ==
    LET c == [c0 EXCEPT !.posts = c0.posts + 1]
        payload == [tool |-> c.tool_name, parameters |-> c.parameters]
    IN  CASE IsOkStatus(o) -> Returned(c, LiveBody(payload, ok))
          [] ~IsOkStatus(o) /\ IsNotFoundStatus(o) ->
                Returned([c EXCEPT !.mocks = c.mocks + 1], _handle_offline_server(payload))
          [] o = "2xx" -> NextAttempt(c, retries)
          [] o = "connect_error" ->
                IF IsLastAttempt(c, retries)
                THEN Returned([c EXCEPT !.mocks = c.mocks + 1],
                              _handle_offline_server(payload))
                ELSE NextAttempt(c, retries)
          [] OTHER ->
                IF IsLastAttempt(c, retries)
                THEN Returned(c, ErrorResult(c.tool_name, c.parameters, o))
                ELSE NextAttempt(c, retries)

\* execute_tool run to its end against a scripted backend: script[i] is the
\* answer to the i-th POST (a 200 answers with success = TRUE).
RECURSIVE RunScript(_, _, _)
RunScript(c, script, retries) ==
    IF c.pc # "post" \/ script = <<>>
    THEN c
    ELSE RunScript(_make_http_request(c, Head(script), TRUE, retries), Tail(script), retries)

\* ------------------------------------------- one execute_tool call at a time

ExecuteTool ==
    /\ call.pc = "idle"
    /\ \E t \in ToolNames : \E p \in ParameterChoices(t) :
          call' = execute_tool(t, p, max_retries)
    /\ outcomes' = <<>>
    /\ UNCHANGED <<xvars, rvars, gvars, cvars, max_retries, bvars, svars, avars>>

PostAttempt ==
    /\ call.pc = "post"
    /\ \E o \in Outcomes : \E ok \in BOOLEAN :
          /\ (o # "200") => ok
          /\ call' = _make_http_request(call, o, ok, max_retries)
          /\ outcomes' = Append(outcomes, o)
    /\ UNCHANGED <<xvars, rvars, gvars, cvars, max_retries, bvars, svars, avars>>

\* The caller takes the result; the dispatcher is ready for the next call.
CallReturns ==
    /\ call.pc = "done"
    /\ call' = IdleCall
    /\ outcomes' = <<>>
    /\ UNCHANGED <<xvars, rvars, gvars, cvars, max_retries, bvars, svars, avars>>

NextDispatch == ExecuteTool \/ PostAttempt \/ CallReturns

\* ------------------------------------------------------ batch_execute_tools

\* The tool calls a batch is made of.
BatchCalls ==
    {[name |-> "set_temperature", parameters |-> [temperature |-> 24]],
     [name |-> "invalid_tool", parameters |-> EmptyDict]}

SeqsUpTo(S, n) == UNION {[1..k -> S] : k \in 0..n}

IsException(r) == "exception" \in DOMAIN r

\* The stub the batch test puts in the place of execute_tool: it raises for
\* "invalid_tool" and returns {"success": True} otherwise.
mock_execute(name, params) ==
    LET c == [IdleCall EXCEPT !.tool_name = name, !.parameters = params]
    IN  IF name = "invalid_tool"
        THEN Returned(c, [exception |-> "Tool not found"])
        ELSE Returned(c, [success |-> TRUE])

\* A gather that hands the results back in the order the tasks finished.
gather_as_completed(ts, order) == [i \in 1..Len(ts) |-> ts[order[i]].ret]

\* asyncio.gather(*tasks, return_exceptions=True): the value or the exception of
\* each awaitable, in the order the awaitables were passed.
gather(ts, order) == [i \in 1..Len(ts) |-> ts[i].ret]

\* The loop over the gathered results.
process_results(results, calls) ==
    [i \in 1..Len(results) |->
        IF IsException(results[i])
        THEN [success |-> FALSE, error |-> results[i].exception, tool |-> calls[i].name]
        ELSE results[i]]

\* batch_execute_tools up to the await of asyncio.gather: one coroutine per call.
BatchExecuteTools ==
    /\ b_pc = "idle"
    /\ \E calls \in SeqsUpTo(BatchCalls, MaxBatch) :
          /\ tool_calls' = calls
          /\ tasks' = [i \in 1..Len(calls) |->
                          [IdleCall EXCEPT !.tool_name = calls[i].name,
                                           !.parameters = calls[i].parameters]]
    /\ stubbed' \in BOOLEAN
    /\ b_pc' = "gather"
    /\ completed' = <<>>
    /\ processed_results' = <<>>
    /\ UNCHANGED <<xvars, rvars, gvars, cvars, dvars, svars, avars>>

Finished(old, new, i) ==
    IF new.pc = "done" /\ old.pc # "done" THEN Append(completed, i) ELSE completed

\* The event loop runs task i from its start to its first await.
TaskStarts(i) ==
    /\ b_pc = "gather"
    /\ i \in 1..Len(tasks)
    /\ tasks[i].pc = "idle"
    /\ LET c == IF stubbed
                THEN mock_execute(tasks[i].tool_name, tasks[i].parameters)
                ELSE execute_tool(tasks[i].tool_name, tasks[i].parameters, max_retries)
       IN  /\ tasks' = [tasks EXCEPT ![i] = c]
           /\ completed' = Finished(tasks[i], c, i)
    /\ UNCHANGED <<xvars, rvars, gvars, cvars, dvars, svars, avars, stubbed, b_pc, tool_calls, processed_results>>

\* The POST of task i is answered and the task runs on to its next await.
TaskPostAttempt(i) ==
    /\ b_pc = "gather"
    /\ i \in 1..Len(tasks)
    /\ tasks[i].pc = "post"
    /\ \E o \in Outcomes : \E ok \in BOOLEAN :
          /\ (o # "200") => ok
          /\ LET c == _make_http_request(tasks[i], o, ok, max_retries)
             IN  /\ tasks' = [tasks EXCEPT ![i] = c]
                 /\ completed' = Finished(tasks[i], c, i)
    /\ UNCHANGED <<xvars, rvars, gvars, cvars, dvars, svars, avars, stubbed, b_pc, tool_calls, processed_results>>

\* Every task has finished: gather returns and the results are processed.
BatchReturns ==
    /\ b_pc = "gather"
    /\ \A i \in 1..Len(tasks) : tasks[i].pc = "done"
    /\ processed_results' = process_results(gather(tasks, completed), tool_calls)
    /\ b_pc' = "done"
    /\ UNCHANGED <<xvars, rvars, gvars, cvars, dvars, svars, avars, stubbed, tool_calls, tasks, completed>>

BatchReset ==
    /\ b_pc = "done"
    /\ b_pc' = "idle"
    /\ tool_calls' = <<>>
    /\ tasks' = <<>>
    /\ completed' = <<>>
    /\ processed_results' = <<>>
    /\ UNCHANGED <<xvars, rvars, gvars, cvars, dvars, svars, avars, stubbed>>

NextBatch ==
    \/ BatchExecuteTools
    \/ \E i \in 1..MaxBatch : TaskStarts(i)
    \/ \E i \in 1..MaxBatch : TaskPostAttempt(i)
    \/ BatchReturns
    \/ BatchReset

\* ----------------------------------------------------------- intent router

\* str.lower() on one character.
LowerChar(c) ==
    CASE c = "A" -> "a" [] c = "B" -> "b" [] c = "C" -> "c" [] c = "D" -> "d"
      [] c = "E" -> "e" [] c = "F" -> "f" [] c = "G" -> "g" [] c = "H" -> "h"
      [] c = "I" -> "i" [] c = "J" -> "j" [] c = "K" -> "k" [] c = "L" -> "l"
      [] c = "M" -> "m" [] c = "N" -> "n" [] c = "O" -> "o" [] c = "P" -> "p"
      [] c = "Q" -> "q" [] c = "R" -> "r" [] c = "S" -> "s" [] c = "T" -> "t"
      [] c = "U" -> "u" [] c = "V" -> "v" [] c = "W" -> "w" [] c = "X" -> "x"
      [] c = "Y" -> "y" [] c = "Z" -> "z" [] OTHER -> c

\* user_input.lower().
RECURSIVE lower(_)
lower(s) ==
    IF Len(s) = 0 THEN s ELSE LowerChar(SubSeq(s, 1, 1)) \o lower(Tail(s))

\* word in text: text holds word as a substring.
Contains(text, word) ==
    \E i \in 1..(Len(text) - Len(word) + 1) : SubSeq(text, i, i + Len(word) - 1) = word

\* any(word in text for word in words).
ContainsAny(text, words) == \E w \in words : Contains(text, w)

\* The window_control branch of _extract_parameters: the side, and the action
\* when one of the action words occurs.
WindowParameters(user_input_lower) ==
    LET side == IF Contains(user_input_lower, "left") THEN "left"
                ELSE IF Contains(user_input_lower, "right") THEN "right"
                ELSE "both"
    IN  IF ContainsAny(user_input_lower, {"open", "down", "fresh air"})
        THEN [side |-> side, action |-> "open"]
        ELSE IF ContainsAny(user_input_lower, {"close", "up"})
        THEN [side |-> side, action |-> "close"]
        ELSE [side |-> side]

\* The keys of intent_patterns in the order the dictionary holds them.
IntentOrder ==
    <<"temperature_control", "music_control", "window_control", "seat_adjustment",
      "weather_inquiry", "location_request", "navigation", "simulation_control",
      "conversation">>

\* A pattern is the set of its alternatives, an alternative the sequence of the
\* literals that ".*" separates. Alternatives(words) is r"(w1|w2|...)".
Alternatives(words) == {<<w>> : w \in words}

\* r"(w1|w2|...).*last".
AlternativesThen(words, last) == {<<w, last>> : w \in words}

\* IntentRouter.intent_patterns. "degrees?" and "directions?" are searched for,
\* so their optional last letter never decides a match.
intent_patterns ==
    [temperature_control |->
        << Alternatives({"cold", "hot", "warm", "cool", "temperature", "degree",
                         "heat", "ac", "air conditioning"}),
           AlternativesThen({"turn up", "turn down", "increase", "decrease", "adjust"},
                            "temperature"),
           Alternatives({"too hot", "too cold", "freezing", "boiling"}),
           Alternatives({"warmer", "cooler", "hotter", "colder"}) >>,
     music_control |->
        << Alternatives({"play", "stop", "pause", "music", "song", "track", "album",
                         "artist"}),
           AlternativesThen({"turn on", "turn off", "start", "next", "previous"}, "music"),
           Alternatives({"spotify", "sound", "audio", "volume"}),
           AlternativesThen({"listen to", "hear", "put on"}, "music") >>,
     window_control |->
        << Alternatives({"window", "windows", "open", "close", "roll up", "roll down"}),
           Alternatives({"fresh air", "ventilation", "breeze"}),
           Alternatives({"stuffy", "air flow"}) >>,
     seat_adjustment |->
        << Alternatives({"seat", "chair", "position", "comfortable", "adjust"}),
           Alternatives({"forward", "back", "up", "down", "recline"}),
           Alternatives({"uncomfortable", "sore", "posture"}) >>,
     weather_inquiry |->
        << Alternatives({"weather", "forecast", "rain", "sunny", "cloudy",
                         "temperature outside"}),
           {<<"what", "like outside">>, <<"how", "weather">>},
           Alternatives({"will it rain", "is it sunny", "temperature"}) >>,
     location_request |->
        << Alternatives({"where are we", "location", "position", "gps"}),
           {<<"what", "place">>, <<"which", "area">>, <<"current location">>} >>,
     navigation |->
        << Alternatives({"direction", "navigate", "route", "way to", "go to",
                         "destination"}),
           {<<"how to get">>, <<"find", "way">>, <<"drive to">>},
           Alternatives({"reroute", "alternative", "shortcut"}) >>,
     simulation_control |->
        << AlternativesThen({"start", "stop", "pause", "reset", "restart"}, "simulation"),
           AlternativesThen({"begin", "end", "exit"}, "session"),
           AlternativesThen({"save", "load"}, "state") >>,
     conversation |->
        << Alternatives({"hello", "hi", "hey", "good morning", "good evening"}),
           Alternatives({"how are you", "thanks", "thank you", "please"}),
           Alternatives({"tell me", "explain", "what", "why", "when", "where", "how"}) >>]

\* IntentRouter.intent_tool_mapping.
intent_tool_mapping ==
    [temperature_control |-> <<"set_temperature">>,
     music_control |-> <<"set_music", "play_spotify">>,
     window_control |-> <<"open_window">>,
     seat_adjustment |-> <<"adjust_seat">>,
     weather_inquiry |-> <<"get_weather">>,
     location_request |-> <<"get_location">>,
     navigation |-> <<"reroute", "get_location">>,
     simulation_control |-> <<"start_simulation", "pause_simulation",
                              "reset_simulation", "log_event">>,
     conversation |-> <<"talk", "remember", "ask_confirm", "summarize">>,
     unknown |-> <<"talk">>]

\* One alternative occurs in text: its first literal somewhere, and its second
\* literal, when it has one, anywhere after the end of the first (the input is
\* one line, so "." matches every character between them).
MatchesAlternative(text, alternative) ==
    LET first == alternative[1]
    IN  IF Len(alternative) = 1 THEN Contains(text, first)
        ELSE \E i \in 1..(Len(text) - Len(first) + 1) :
                /\ SubSeq(text, i, i + Len(first) - 1) = first
                /\ Contains(SubSeq(text, i + Len(first), Len(text)), alternative[2])

\* re.search(pattern, text) finds a match.
re_search(pattern, text) == \E alternative \in pattern : MatchesAlternative(text, alternative)

\* The loop of _classify_intent over the patterns of one intent: matches.
RECURSIVE CountMatches(_, _)
CountMatches(patterns, text) ==
    IF patterns = <<>> THEN 0
    ELSE (IF re_search(Head(patterns), text) THEN 1 ELSE 0)
         + CountMatches(Tail(patterns), text)

\* A score that divides by the longest pattern list instead of the intent's own.
ScoreOfFour(matches, patterns) == [num |-> matches, den |-> 4]

\* matches / len(patterns), kept as the fraction it is.
Score(matches, patterns) == [num |-> matches, den |-> Len(patterns)]

\* a < b for two fractions with positive denominators. The floats the code
\* compares are the correctly rounded quotients of integers up to 4, which
\* order and coincide exactly as the fractions do.
Less(a, b) == a.num * b.den < b.num * a.den

\* intent_scores: the score of every intent with at least one matching pattern.
IntentScores(user_input_lower) ==
    LET matches(i) == CountMatches(intent_patterns[IntentOrder[i]], user_input_lower)
        scored == {i \in 1..Len(IntentOrder) : matches(i) > 0}
    IN  [intent \in {IntentOrder[i] : i \in scored} |->
            Score(CountMatches(intent_patterns[intent], user_input_lower),
                  intent_patterns[intent])]

\* A choice of the last key, in the order of the dictionary, that no other
\* key beats.
LastBestIntent(intent_scores) ==
    LET scored == {i \in 1..Len(IntentOrder) : IntentOrder[i] \in DOMAIN intent_scores}
        best == CHOOSE i \in scored :
                    \A j \in scored :
                        /\ ~Less(intent_scores[IntentOrder[i]], intent_scores[IntentOrder[j]])
                        /\ j > i => Less(intent_scores[IntentOrder[j]],
                                         intent_scores[IntentOrder[i]])
    IN  IntentOrder[best]

\* max(intent_scores, key=intent_scores.get): the first key, in the order of
\* the dictionary, that no other key beats.
BestIntent(intent_scores) ==
    LET scored == {i \in 1..Len(IntentOrder) : IntentOrder[i] \in DOMAIN intent_scores}
        best == CHOOSE i \in scored :
                    \A j \in scored :
                        /\ ~Less(intent_scores[IntentOrder[i]], intent_scores[IntentOrder[j]])
                        /\ j < i => Less(intent_scores[IntentOrder[j]],
                                         intent_scores[IntentOrder[i]])
    IN  IntentOrder[best]

\* A suggested tool list that is always empty.
NoSuggestedTools(intent_type) == <<>>

\* self.intent_tool_mapping.get(best_intent, ["talk"]).
SuggestedTools(intent_type) ==
    IF intent_type \in DOMAIN intent_tool_mapping THEN intent_tool_mapping[intent_type]
    ELSE <<"talk">>

\* _predict_action.
_predict_action(user_input, intent_type) ==
    LET user_input_lower == lower(user_input)
    IN  CASE intent_type = "temperature_control" ->
                IF ContainsAny(user_input_lower, {"cold", "cool"})
                THEN "increase_temperature"
                ELSE IF ContainsAny(user_input_lower, {"hot", "warm"})
                THEN "decrease_temperature"
                ELSE "adjust_temperature"
          [] intent_type = "music_control" ->
                IF Contains(user_input_lower, "play") THEN "play_music"
                ELSE IF ContainsAny(user_input_lower, {"stop", "pause"})
                THEN "stop_music"
                ELSE "control_music"
          [] intent_type = "window_control" ->
                IF Contains(user_input_lower, "open") THEN "open_window"
                ELSE IF Contains(user_input_lower, "close") THEN "close_window"
                ELSE "control_window"
          [] intent_type = "weather_inquiry" -> "get_weather_info"
          [] intent_type = "location_request" -> "get_current_location"
          [] intent_type = "navigation" -> "provide_navigation"
          [] OTHER -> "general_conversation"

\* _classify_intent: the IntentResult, its confidence a fraction (0.1 is 1/10).
_classify_intent(user_input) ==
    LET user_input_lower == lower(user_input)
        intent_scores == IntentScores(user_input_lower)
        matched == DOMAIN intent_scores # {}
        best_intent == IF matched THEN BestIntent(intent_scores) ELSE "conversation"
        confidence == IF matched THEN intent_scores[best_intent]
                      ELSE [num |-> 1, den |-> 10]
    IN  [intent_type |-> best_intent,
         confidence |-> confidence,
         suggested_tools |-> SuggestedTools(best_intent),
         extracted_parameters |-> EmptyDict,
         predicted_action |-> _predict_action(user_input, best_intent)]

\* The characters that \s matches in the inputs considered.
Whitespace == {" ", "\t", "\n", "\r", "\f"}

\* The characters that \d matches in the inputs considered, by value.
Digits == <<"0", "1", "2", "3", "4", "5", "6", "7", "8", "9">>

IsDigit(c) == \E d \in 1..Len(Digits) : Digits[d] = c

\* text[i-1] in Python, a string of length 1.
CharAt(text, i) == SubSeq(text, i, i)

\* word occurs in text at position i.
StartsAt(text, i, word) ==
    /\ i >= 1
    /\ i + Len(word) - 1 <= Len(text)
    /\ SubSeq(text, i, i + Len(word) - 1) = word

\* The length of the longest run of whitespace that starts at position i.
SpaceRun(text, i) ==
    LET ends == {j \in i..(Len(text) + 1) :
                    \A k \in i..(j - 1) : CharAt(text, k) \in Whitespace}
    IN  (CHOOSE j \in ends : \A k \in ends : k <= j) - i

\* The length of the longest run of digits that starts at position i.
DigitRun(text, i) ==
    LET ends == {j \in i..(Len(text) + 1) :
                    \A k \in i..(j - 1) : IsDigit(CharAt(text, k))}
    IN  (CHOOSE j \in ends : \A k \in ends : k <= j) - i

\* float(s) for a string of digits.
RECURSIVE float(_)
float(s) ==
    IF Len(s) = 0 THEN 0
    ELSE float(SubSeq(s, 1, Len(s) - 1)) * 10
         + ((CHOOSE d \in 1..Len(Digits) : Digits[d] = CharAt(s, Len(s))) - 1)

\* s.strip().
RECURSIVE strip(_)
strip(s) ==
    IF Len(s) = 0 THEN s
    ELSE IF CharAt(s, 1) \in Whitespace THEN strip(Tail(s))
    ELSE IF CharAt(s, Len(s)) \in Whitespace THEN strip(SubSeq(s, 1, Len(s) - 1))
    ELSE s

\* The least element of a non-empty set of positions.
Leftmost(positions) == CHOOSE i \in positions : \A j \in positions : i <= j

\* re.search(r'(\d+)[\s]*(?:degrees?|°)', text): group 1 of the leftmost
\* match, None without a match. A match starts with a run of digits that
\* whitespace and then "degree" or the degree sign follow.
TemperatureMatch(text) ==
    LET after(i) == i + DigitRun(text, i) + SpaceRun(text, i + DigitRun(text, i))
        starts == {i \in 1..Len(text) :
                      /\ IsDigit(CharAt(text, i))
                      /\ StartsAt(text, after(i), "degree") \/ StartsAt(text, after(i), "°")}
    IN  IF starts = {} THEN None
        ELSE [group1 |-> SubSeq(text, Leftmost(starts),
                                Leftmost(starts) + DigitRun(text, Leftmost(starts)) - 1)]

\* The rest of the text from position i matches (?:\s+by\s+|\s*$) at its start.
EndsTrack(text, i) ==
    \/ i + SpaceRun(text, i) = Len(text) + 1
    \/ /\ SpaceRun(text, i) >= 1
       /\ StartsAt(text, i + SpaceRun(text, i), "by")
       /\ SpaceRun(text, i + SpaceRun(text, i) + 2) >= 1

\* re.search(r'play\s+(.*?)(?:\s+by\s+|\s*$)', text): group 1 of the leftmost
\* match, None without a match. The text is one line: the shortest stretch
\* after "play" and its whitespace that " by " or the end of the text follows.
PlayMatch(text) ==
    LET starts == {i \in 1..Len(text) :
                      StartsAt(text, i, "play") /\ SpaceRun(text, i + 4) >= 1}
        from == Leftmost(starts) + 4 + SpaceRun(text, Leftmost(starts) + 4)
        stops == {j \in from..(Len(text) + 1) : EndsTrack(text, j)}
    IN  IF starts = {} THEN None
        ELSE [group1 |-> SubSeq(text, from, Leftmost(stops) - 1)]

\* The alternatives of the destination pattern.
DestinationPrefixes == {"to", "go to", "navigate to", "directions to"}

\* re.search(r'(?:to|go to|navigate to|directions to)\s+(.+)', text): group 1
\* of the leftmost match, None without a match. The text is one line: after a
\* prefix and its whitespace the group takes all that is left, and when only
\* whitespace follows the prefix, the last of at least two whitespace characters.
DestinationMatch(text) ==
    LET rest(i, prefix) == i + Len(prefix) + SpaceRun(text, i + Len(prefix))
        matches(i, prefix) ==
            /\ StartsAt(text, i, prefix)
            /\ SpaceRun(text, i + Len(prefix)) >= 1
            /\ rest(i, prefix) <= Len(text) \/ SpaceRun(text, i + Len(prefix)) >= 2
        starts == {i \in 1..Len(text) : \E prefix \in DestinationPrefixes : matches(i, prefix)}
        first == Leftmost(starts)
        prefix == CHOOSE p \in DestinationPrefixes : matches(first, p)
    IN  IF starts = {} THEN None
        ELSE IF rest(first, prefix) <= Len(text)
        THEN [group1 |-> SubSeq(text, rest(first, prefix), Len(text))]
        ELSE [group1 |-> CharAt(text, Len(text))]

\* The genres _extract_parameters looks for, in its order.
genres == <<"rock", "pop", "jazz", "classical", "electronic", "folk", "country">>

\* The entries of a, and those of b under the keys a does not have: the
\* dictionary after the assignments of a and b to different keys.
Merge(a, b) == a @@ b

\* The temperature_control branch of _extract_parameters.
TemperatureParameters(user_input_lower) ==
    LET temp_match == TemperatureMatch(user_input_lower)
    IN  IF temp_match # None THEN [temperature |-> float(temp_match.group1)]
        ELSE IF ContainsAny(user_input_lower, {"cold", "cool", "cooler"})
        THEN [direction |-> "decrease"]
        ELSE IF ContainsAny(user_input_lower, {"hot", "warm", "warmer"})
        THEN [direction |-> "increase"]
        ELSE EmptyDict

\* The music_control branch of _extract_parameters.
MusicParameters(user_input_lower) ==
    LET play_match == IF Contains(user_input_lower, "play")
                      THEN PlayMatch(user_input_lower) ELSE None
        track == IF play_match # None THEN [track |-> strip(play_match.group1)]
                 ELSE EmptyDict
        found == {g \in 1..Len(genres) : Contains(user_input_lower, genres[g])}
        genre == IF found # {} THEN [genre |-> genres[Leftmost(found)]] ELSE EmptyDict
    IN  Merge(track, genre)

\* The seat_adjustment branch of _extract_parameters.
SeatParameters(user_input_lower) ==
    IF Contains(user_input_lower, "forward") THEN [position |-> "forward"]
    ELSE IF Contains(user_input_lower, "back") THEN [position |-> "back"]
    ELSE IF Contains(user_input_lower, "recline") THEN [position |-> "reclined"]
    ELSE IF Contains(user_input_lower, "up") THEN [position |-> "up"]
    ELSE EmptyDict

\* The navigation branch of _extract_parameters.
NavigationParameters(user_input_lower) ==
    LET to_match == DestinationMatch(user_input_lower)
    IN  IF to_match # None THEN [destination |-> strip(to_match.group1)]
        ELSE EmptyDict

\* _extract_parameters.
_extract_parameters(user_input, intent_type) ==
    LET user_input_lower == lower(user_input)
    IN  CASE intent_type = "temperature_control" -> TemperatureParameters(user_input_lower)
          [] intent_type = "music_control" -> MusicParameters(user_input_lower)
          [] intent_type = "window_control" -> WindowParameters(user_input_lower)
          [] intent_type = "seat_adjustment" -> SeatParameters(user_input_lower)
          [] intent_type = "navigation" -> NavigationParameters(user_input_lower)
          [] OTHER -> EmptyDict

\* One property of a parameter schema.
Property(type, description) == [type |-> type, description |-> description]

\* A tool schema whose parameters object has one required property.
Schema(name, description, property, type, property_description) ==
    [name |-> name,
     description |-> description,
     parameters |-> [type |-> "object",
                     properties |-> (property :> Property(type, property_description)),
                     required |-> <<property>>]]

\* tool_schemas of _get_available_tools.
tool_schemas ==
    [set_temperature |-> Schema("set_temperature", "Adjust cabin temperature",
                                "temperature", "number", "Temperature in Celsius"),
     set_music |-> Schema("set_music", "Control music playback",
                          "track", "string", "Song or artist name"),
     open_window |->
        [name |-> "open_window",
         description |-> "Open or close windows",
         parameters |-> [type |-> "object",
                         properties |-> [side |-> [type |-> "string",
                                                   enum |-> <<"left", "right">>,
                                                   description |-> "Which side window"]],
                         required |-> <<"side">>]],
     adjust_seat |-> Schema("adjust_seat", "Adjust seat position",
                            "position", "string", "Seat position"),
     get_weather |-> Schema("get_weather", "Get current weather information",
                            "location", "string", "Location name"),
     get_location |->
        [name |-> "get_location",
         description |-> "Get current GPS location",
         parameters |-> [type |-> "object", properties |-> EmptyDict]],
     play_spotify |-> Schema("play_spotify", "Play music via Spotify",
                             "track", "string", "Song or artist name"),
     reroute |-> Schema("reroute", "Get new route to destination",
                        "destination", "string", "Destination name"),
     talk |-> Schema("talk", "Respond conversationally",
                     "message", "string", "Message to communicate")]

\* The loop of _get_available_tools: the schemas of the tool names that have one.
RECURSIVE SchemasOf(_)
SchemasOf(tool_names) ==
    IF tool_names = <<>> THEN <<>>
    ELSE (IF Head(tool_names) \in DOMAIN tool_schemas
          THEN <<tool_schemas[Head(tool_names)]>> ELSE <<>>)
         \o SchemasOf(Tail(tool_names))

\* _get_available_tools.
_get_available_tools(intent_type) ==
    SchemasOf(IF intent_type \in DOMAIN intent_tool_mapping
              THEN intent_tool_mapping[intent_type] ELSE <<>>)

\* _refine_tools_with_context.
_refine_tools_with_context(tools, context) == tools

\* _get_fallback_tools.
_get_fallback_tools == _get_available_tools("conversation")

\* route_intent. A user_input of None makes _classify_intent raise at lower(),
\* and the except clause answers; no text makes any step raise.
route_intent(user_input, context) ==
    IF user_input = NoneStr
    THEN [intent_type |-> "unknown",
          confidence |-> [num |-> 0, den |-> 1],
          suggested_tools |-> <<"talk">>,
          available_tools |-> _get_fallback_tools,
          extracted_parameters |-> EmptyDict,
          predicted_action |-> "conversation"]
    ELSE LET classified == _classify_intent(user_input)
             parameters == _extract_parameters(user_input, classified.intent_type)
             available_tools == _get_available_tools(classified.intent_type)
         IN  [intent_type |-> classified.intent_type,
              confidence |-> classified.confidence,
              suggested_tools |-> classified.suggested_tools,
              available_tools |-> IF context # None /\ context # EmptyDict
                                  THEN _refine_tools_with_context(available_tools, context)
                                  ELSE available_tools,
              extracted_parameters |-> parameters,
              predicted_action |-> classified.predicted_action]

\* The phrases the routed inputs are put together from: the halves of the
\* inputs of the routing and extraction tests, and a second "go to".
RoutePhrases ==
    {"Navigate to Istanbul", "Istanbul", "please", "Play some jazz music",
     "play Hotel California", "by Eagles", "it's too cold,", "make it warmer",
     "set temperature to 23 degrees", "Open the left window", "go to"}

\* The routed inputs of at most n phrases, the empty input among them.
RECURSIVE RouteInputsOf(_)
RouteInputsOf(n) ==
    IF n = 0 THEN {""}
    ELSE LET shorter == RouteInputsOf(n - 1)
         IN  shorter \cup {IF text = "" THEN p ELSE text \o " " \o p :
                             text \in shorter, p \in RoutePhrases}

\* The arguments of route_intent: a text, or None.
RouteInputs == RouteInputsOf(MaxPhrases) \cup {NoneStr}

\* The contexts handed to route_intent: none, or the current context.
RouteContexts == {None, [environment |-> [temperature |-> 22]]}

\* No route_intent or _extract_parameters call has been made.
NoRouterCall == [op |-> "IntentRouter"]

\* One route_intent call, made while no result is waiting for the caller.
RouteIntent ==
    /\ router_call = NoRouterCall
    /\ \E text \in RouteInputs, context \in RouteContexts :
          router_call' = [op |-> "route_intent", user_input |-> text,
                          context |-> context, ret |-> route_intent(text, context)]
    /\ UNCHANGED <<dvars, bvars, svars, avars, gvars, cvars, rvars>>

\* One _extract_parameters call with an intent of the caller's choice, as the
\* extraction tests make it.
ExtractParameters ==
    /\ router_call = NoRouterCall
    /\ \E text \in RouteInputs \ {NoneStr}, intent_type \in DOMAIN intent_tool_mapping :
          router_call' = [op |-> "_extract_parameters", user_input |-> text,
                          intent_type |-> intent_type,
                          ret |-> _extract_parameters(text, intent_type)]
    /\ UNCHANGED <<dvars, bvars, svars, avars, gvars, cvars, rvars>>

\* The caller takes the result.
RouterCallReturns ==
    /\ router_call # NoRouterCall
    /\ router_call' = NoRouterCall
    /\ UNCHANGED <<dvars, bvars, svars, avars, gvars, cvars, rvars>>

NextRoute == RouteIntent \/ ExtractParameters \/ RouterCallReturns

\* The phrases user inputs are put together from: words of one pattern, of two
\* patterns of one intent, of two intents, of no pattern, the first and the
\* second half of an "a.*b" pattern, and upper-case letters.
Phrases ==
    {"cold", "warmer", "too hot", "turn up", "temperature", "Play", "music",
     "please", "hello", "window", "navigate", "xyz"}

\* The user inputs of at most n phrases, the empty input among them.
RECURSIVE InputsOf(_)
InputsOf(n) ==
    IF n = 0 THEN {""}
    ELSE LET shorter == InputsOf(n - 1)
         IN  shorter \cup {IF text = "" THEN p ELSE text \o " " \o p :
                             text \in shorter, p \in Phrases}

UserInputs == InputsOf(MaxPhrases)

\* One _classify_intent call, made while no result is waiting for the caller.
ClassifyIntent ==
    /\ intent_result = None
    /\ \E text \in UserInputs :
          /\ classified_input' = text
          /\ intent_result' = _classify_intent(text)
    /\ UNCHANGED <<xvars, dvars, bvars, svars, avars, gvars, cvars>>

\* The caller of _classify_intent takes the result.
ClassifyIntentReturns ==
    /\ intent_result # None
    /\ classified_input' = ""
    /\ intent_result' = None
    /\ UNCHANGED <<xvars, dvars, bvars, svars, avars, gvars, cvars>>

NextRouter == ClassifyIntent \/ ClassifyIntentReturns

\* ----------------------------------------------------------- state tracker

\* The number of newest history entries that _save_state writes (50 in the
\* code, where max_history_size is 100), scaled down with MaxHistorySize.
SavedHistorySize == 2

\* seq[-n:] for n > 0.
LastN(seq, n) ==
    IF Len(seq) <= n THEN seq ELSE SubSeq(seq, Len(seq) - n + 1, Len(seq))

\* EnvironmentState(): latitude and longitude in units of 0.0001 degrees.
EnvironmentState ==
    [temperature |-> 22, music_playing |-> FALSE, current_track |-> NoneStr,
     windows_left |-> "closed", windows_right |-> "closed", seat_position |-> "normal",
     location |-> "Yalova, Turkey", latitude |-> 406553, longitude |-> 292769,
     speed |-> 0, weather_condition |-> "unknown", weather_temperature |-> 18,
     time_of_day |-> "day"]

\* UserPreferences().
UserPreferences ==
    [preferred_temperature |-> 22, preferred_music_genre |-> NoneStr,
     preferred_artists |-> <<>>, language |-> "en", tts_enabled |-> TRUE,
     voice_rate |-> 200]

\* _update_state_from_tool: the new environment state and state_updated. A
\* result that is no mapping (None) makes result.get raise; the except clause
\* of the method then returns the state_updated reached so far.
_update_state_from_tool(env, tool_name, args, result) ==
    LET unchanged == [env |-> env, updated |-> FALSE]
        ismap == result # None
    IN  CASE tool_name = "set_temperature" ->
                IF "temperature" \in DOMAIN args /\ args.temperature # 0
                THEN [env |-> [env EXCEPT !.temperature = args.temperature],
                      updated |-> TRUE]
                ELSE IF ~ismap THEN unchanged
                ELSE IF "current_temperature" \in DOMAIN result
                        /\ result.current_temperature # 0
                THEN [env |-> [env EXCEPT !.temperature = result.current_temperature],
                      updated |-> TRUE]
                ELSE unchanged
          [] tool_name \in {"set_music", "play_spotify"} ->
                IF "track" \in DOMAIN args /\ args.track # ""
                THEN [env |-> [env EXCEPT !.current_track = args.track,
                                          !.music_playing = TRUE],
                      updated |-> TRUE]
                ELSE IF ~ismap THEN unchanged
                ELSE IF "track" \in DOMAIN result /\ result.track # ""
                THEN [env |-> [env EXCEPT !.current_track = result.track,
                                          !.music_playing = TRUE],
                      updated |-> TRUE]
                ELSE unchanged
          [] tool_name = "open_window" ->
                LET side == Get(args, "side", "both")
                    action == Get(args, "action", "open")
                    left == IF side \in {"left", "both"}
                            THEN [env EXCEPT !.windows_left = action] ELSE env
                    both == IF side \in {"right", "both"}
                            THEN [left EXCEPT !.windows_right = action] ELSE left
                IN  [env |-> both, updated |-> TRUE]
          [] tool_name = "adjust_seat" ->
                IF "position" \in DOMAIN args /\ args.position # ""
                THEN [env |-> [env EXCEPT !.seat_position = args.position],
                      updated |-> TRUE]
                ELSE unchanged
          [] tool_name = "get_weather" ->
                IF ~ismap THEN unchanged
                ELSE LET t == IF "temperature" \in DOMAIN result /\ result.temperature # 0
                              THEN [env EXCEPT !.weather_temperature = result.temperature]
                              ELSE env
                         c == IF "condition" \in DOMAIN result /\ result.condition # ""
                              THEN [t EXCEPT !.weather_condition = result.condition]
                              ELSE t
                     IN  [env |-> c, updated |-> TRUE]
          [] tool_name = "get_location" ->
                IF ~ismap THEN unchanged
                ELSE LET la == IF "latitude" \in DOMAIN result /\ result.latitude # 0
                               THEN [env EXCEPT !.latitude = result.latitude] ELSE env
                         lo == IF "longitude" \in DOMAIN result /\ result.longitude # 0
                               THEN [la EXCEPT !.longitude = result.longitude] ELSE la
                         lc == IF "location" \in DOMAIN result /\ result.location # ""
                               THEN [lo EXCEPT !.location = result.location] ELSE lo
                     IN  [env |-> lc, updated |-> TRUE]
          [] OTHER -> unchanged

\* The loop of update_context over tool_results: only the results whose
\* "success" is true are applied.
RECURSIVE ApplyToolResults(_, _)
ApplyToolResults(st, tool_results) ==
    IF tool_results = <<>>
    THEN st
    ELSE LET r == Head(tool_results)
             u == IF Get(r, "success", FALSE)
                  THEN _update_state_from_tool(st.env, r.tool, Get(r, "arguments", EmptyDict),
                                               Get(r, "result", EmptyDict))
                  ELSE [env |-> st.env, updated |-> FALSE]
         IN  ApplyToolResults([env |-> u.env, updated |-> st.updated \/ u.updated],
                              Tail(tool_results))

\* A trimming that keeps the oldest entries instead of the newest.
TrimHistoryKeepsOldest(history, cap) ==
    IF Len(history) > cap THEN SubSeq(history, 1, cap) ELSE history

\* The trimming of update_context: the last max_history_size entries are kept.
TrimHistory(history, cap) ==
    IF Len(history) > cap THEN LastN(history, cap) ELSE history

\* update_context without _save_state: the new environment state, the new
\* history (one entry appended, then trimmed) and the value returned.
update_context(env, history, cap, user_input, agent_response, tool_results) ==
    LET st == ApplyToolResults([env |-> env, updated |-> FALSE], tool_results)
        context_entry ==
            [user_input |-> user_input, agent_response |-> agent_response,
             tool_results |-> tool_results, state_snapshot |-> st.env]
    IN  [env |-> st.env,
         history |-> TrimHistory(Append(history, context_entry), cap),
         state_updated |-> st.updated]

\* The fields of EnvironmentState and of UserPreferences that hold a str or
\* None, and the field that holds a list of str.
EnvironmentStrFields ==
    {"current_track", "windows_left", "windows_right", "seat_position", "location",
     "weather_condition", "time_of_day"}

PreferencesStrFields == {"preferred_music_genre", "language"}

PreferencesListFields == {"preferred_artists"}

\* json.dump of a str or None: the quoted text, or null.
json_dump_str(v) == IF v = NoneStr THEN "null" ELSE "\"" \o v \o "\""

\* A reading of JSON text that keeps the quotes.
json_load_str_quoted(j) == IF j = "null" THEN NoneStr ELSE j

\* json.load of a JSON string or null.
json_load_str(j) == IF j = "null" THEN NoneStr ELSE SubSeq(j, 2, Len(j) - 1)

\* json.dump of a dict: each str as JSON text, each list of str as an array
\* of JSON text; numbers and booleans as they are.
json_dump_dict(d, str_fields, list_fields) ==
    [f \in DOMAIN d |->
        IF f \in str_fields THEN json_dump_str(d[f])
        ELSE IF f \in list_fields
        THEN IF d[f] = <<>> THEN <<>>
             ELSE [i \in 1..Len(d[f]) |-> json_dump_str(d[f][i])]
        ELSE d[f]]

\* json.load of a JSON object written by json_dump_dict.
json_load_dict(j, str_fields, list_fields) ==
    [f \in DOMAIN j |->
        IF f \in str_fields THEN json_load_str(j[f])
        ELSE IF f \in list_fields
        THEN IF j[f] = <<>> THEN <<>>
             ELSE [i \in 1..Len(j[f]) |-> json_load_str(j[f][i])]
        ELSE j[f]]

\* json.dump of a history entry: the state snapshot of a context entry and
\* the type and key of a preference entry are written as JSON text; the other
\* fields hold numbers and mappings, written as they are.
json_dump_entry(e) ==
    [f \in DOMAIN e |->
        IF f = "state_snapshot" THEN json_dump_dict(e[f], EnvironmentStrFields, {})
        ELSE IF f \in {"type", "key"} THEN json_dump_str(e[f])
        ELSE e[f]]

json_load_entry(j) ==
    [f \in DOMAIN j |->
        IF f = "state_snapshot" THEN json_load_dict(j[f], EnvironmentStrFields, {})
        ELSE IF f \in {"type", "key"} THEN json_load_str(j[f])
        ELSE j[f]]

json_dump_history(history) ==
    IF history = <<>> THEN <<>>
    ELSE [i \in 1..Len(history) |-> json_dump_entry(history[i])]

json_load_history(j) ==
    IF j = <<>> THEN <<>> ELSE [i \in 1..Len(j) |-> json_load_entry(j[i])]

\* What the disk does in one _save_state: the write succeeds, open() raises,
\* or json.dump raises after open() has emptied the file.
DiskOutcomes == {"ok", "open_fails", "dump_fails"}

\* A state file that a failed json.dump left: no JSON document.
TruncatedFile == [truncated |-> TRUE]

\* _save_state: the snapshot written over the state file. A failure is logged;
\* the file is then as it was, or truncated.
_save_state(env, prefs, history, file, disk) ==
    CASE disk = "ok" ->
            [environment |-> json_dump_dict(env, EnvironmentStrFields, {}),
             preferences |-> json_dump_dict(prefs, PreferencesStrFields,
                                            PreferencesListFields),
             context_history |-> json_dump_history(LastN(history, SavedHistorySize))]
      [] disk = "dump_fails" -> TruncatedFile
      [] OTHER -> file

\* EnvironmentState(**env_data) and UserPreferences(**pref_data): the fields
\* the data names, the defaults for the others. (A name that is no field
\* raises TypeError; the files of this model hold no such name.)
FromDict(defaults, data) ==
    [f \in DOMAIN defaults |-> IF f \in DOMAIN data THEN data[f] ELSE defaults[f]]

\* _load_state and _load_state_sync: each section the file holds replaces the
\* corresponding part of the state; without a file, or with one that json.load
\* cannot read (the error is logged), nothing changes.
_load_state(env, prefs, history, file) ==
    IF file = None \/ file = TruncatedFile
    THEN [env |-> env, prefs |-> prefs, history |-> history]
    ELSE [env |-> IF "environment" \in DOMAIN file
                  THEN FromDict(EnvironmentState,
                                json_load_dict(file.environment, EnvironmentStrFields, {}))
                  ELSE env,
          prefs |-> IF "preferences" \in DOMAIN file
                    THEN FromDict(UserPreferences,
                                  json_load_dict(file.preferences, PreferencesStrFields,
                                                 PreferencesListFields))
                    ELSE prefs,
          history |-> IF "context_history" \in DOMAIN file
                      THEN json_load_history(file.context_history)
                      ELSE history]

\* The state files found at construction: none, or one that holds only part
\* of the fields.
InitialStateFiles ==
    {None, [environment |-> [temperature |-> 25, windows_left |-> "\"open\""]]}

\* StateTracker(): the defaults, then _load_state_sync.
StateTracker(file) == _load_state(EnvironmentState, UserPreferences, <<>>, file)

\* The preferences a caller asks to remember: known keys and custom keys.
PreferenceChoices ==
    {[key |-> "preferred_temperature", value |-> 24],
     [key |-> "preferred_artist", value |-> "The Beatles"],
     [key |-> "favorite_color", value |-> 1],
     [key |-> "favorite_color", value |-> 2]}

\* The keys that remember_preference stores in UserPreferences.
KnownPreferenceKeys ==
    {"preferred_temperature", "preferred_music_genre", "preferred_artist", "language",
     "tts_enabled"}

\* Every kind of preference a caller asks to remember: each known key with a
\* value of its type, and keys that remember_preference does not know, with
\* integer values.
AllPreferenceChoices ==
    {[key |-> "preferred_temperature", value |-> 24],
     [key |-> "preferred_music_genre", value |-> "jazz"],
     [key |-> "preferred_artist", value |-> "The Beatles"],
     [key |-> "language", value |-> "tr"],
     [key |-> "tts_enabled", value |-> FALSE],
     [key |-> "favorite_color", value |-> 1],
     [key |-> "favorite_color", value |-> 2],
     [key |-> "seat_heating", value |-> 1],
     [key |-> "preferred_artists", value |-> 1]}

\* The keys of these choices that remember_preference does not know.
CustomKeys == {p.key : p \in AllPreferenceChoices} \ KnownPreferenceKeys

\* What is recorded of a custom key: nothing remembered yet, the value last
\* remembered, or that history entries were dropped since.
NeverRemembered == [status |-> "never"]

Evicted == [status |-> "evicted"]

Live(value) == [status |-> "live", value |-> value]

\* Entries were dropped from the history: what was live may be gone.
AfterEviction(r) == [k \in DOMAIN r |-> IF r[k].status = "live" THEN Evicted ELSE r[k]]

\* remember_preference without _save_state: the new preferences and history.
remember_preference(prefs, history, key, value) ==
    CASE key = "preferred_temperature" ->
            [prefs |-> [prefs EXCEPT !.preferred_temperature = value], history |-> history]
      [] key = "preferred_music_genre" ->
            [prefs |-> [prefs EXCEPT !.preferred_music_genre = value], history |-> history]
      [] key = "preferred_artist" ->
            [prefs |-> IF \E i \in 1..Len(prefs.preferred_artists) :
                              prefs.preferred_artists[i] = value
                       THEN prefs
                       ELSE [prefs EXCEPT !.preferred_artists = Append(@, value)],
             history |-> history]
      [] key = "language" ->
            [prefs |-> [prefs EXCEPT !.language = value], history |-> history]
      [] key = "tts_enabled" ->
            [prefs |-> [prefs EXCEPT !.tts_enabled = value], history |-> history]
      [] OTHER ->
            [prefs |-> prefs,
             history |-> Append(history, [type |-> "preference", key |-> key,
                                          value |-> value])]

\* get_preference: the value returned, with its Python type, or None. A key
\* that is none of the five named ones is looked up in the history, newest
\* entry first, among the entries tagged as preferences.
get_preference(prefs, history, key) ==
    CASE key = "preferred_temperature" ->
            [type |-> "float", value |-> prefs.preferred_temperature]
      [] key = "preferred_music_genre" ->
            IF prefs.preferred_music_genre = NoneStr THEN None
            ELSE [type |-> "str", value |-> prefs.preferred_music_genre]
      [] key = "preferred_artists" ->
            [type |-> "list", value |-> prefs.preferred_artists]
      [] key = "language" -> [type |-> "str", value |-> prefs.language]
      [] key = "tts_enabled" -> [type |-> "bool", value |-> prefs.tts_enabled]
      [] OTHER ->
            LET hits == {i \in 1..Len(history) :
                            /\ "type" \in DOMAIN history[i]
                            /\ history[i].type = "preference"
                            /\ "key" \in DOMAIN history[i]
                            /\ history[i].key = key}
                last == CHOOSE i \in hits : \A j \in hits : j <= i
            IN  IF hits = {} THEN None
                ELSE IF "value" \in DOMAIN history[last]
                THEN [type |-> "int", value |-> history[last].value]
                ELSE None

\* The utterances about windows whose extracted parameters become the
\* arguments of an open_window call.
WindowInputs == {"Close the right window"}

\* The tool results a caller hands to update_context (the wrappers that
\* _execute_tool_calls builds, and the empty list).
ToolResultChoices ==
    {<<>>,
     <<[tool |-> "set_temperature", arguments |-> [temperature |-> 24],
        result |-> [success |-> TRUE], success |-> TRUE]>>,
     <<[tool |-> "open_window", arguments |-> [side |-> "left", action |-> "open"],
        result |-> [success |-> FALSE], success |-> FALSE]>>}
    \cup {<<[tool |-> "open_window", arguments |-> WindowParameters(lower(text)),
              result |-> [success |-> TRUE], success |-> TRUE]>> : text \in WindowInputs}

\* An except clause of _save_state that lets the error of the write through.
_save_state_reraises(disk) == disk # "ok"

\* Whether _save_state raises: its except clause logs the error of a failing
\* write and lets nothing through.
_save_state_raises(disk) == FALSE

\* No call has been made on the state tracker since its construction.
NoCall == [op |-> "StateTracker", input |-> EmptyDict, disk_ok |-> TRUE, ret |-> None]

\* await update_context(user_input, agent_response, tool_results), with the
\* _save_state it ends with when the state was updated; the tool results are
\* drawn from the given choices.
UpdateContextOf(choices) ==
    /\ n_ops < MaxOps
    /\ \E tool_results \in choices : \E disk \in DiskOutcomes :
          LET u == update_context(environment_state, context_history, max_history_size,
                                  n_calls + 1, "ok", tool_results)
          IN  /\ environment_state' = u.env
              /\ context_history' = u.history
              /\ remembered' = IF Len(context_history) + 1 > max_history_size
                               THEN AfterEviction(remembered) ELSE remembered
              /\ state_file' = IF u.state_updated
                               THEN _save_state(u.env, user_preferences, u.history,
                                                state_file, disk)
                               ELSE state_file
              /\ last_op' = [op |-> "update_context", input |-> tool_results,
                             disk_ok |-> disk = "ok",
                             ret |-> IF u.state_updated /\ _save_state_raises(disk)
                                     THEN FALSE ELSE u.state_updated]
    /\ n_calls' = n_calls + 1
    /\ n_ops' = n_ops + 1
    /\ updates_log' = Append(updates_log, n_calls + 1)
    /\ UNCHANGED <<xvars, rvars, gvars, cvars, dvars, bvars, avars, user_preferences, max_history_size, only_updates>>

UpdateContext == UpdateContextOf(ToolResultChoices)

\* A turn without a tool call.
UpdateContextWithoutTools == UpdateContextOf({<<>>})

\* await remember_preference(key, value), with its _save_state; the preference
\* is drawn from the given choices.
RememberPreferenceOf(choices) ==
    /\ n_ops < MaxOps
    /\ \E p \in choices : \E disk \in DiskOutcomes :
          LET r == remember_preference(user_preferences, context_history, p.key, p.value)
          IN  /\ user_preferences' = r.prefs
              /\ context_history' = r.history
              /\ state_file' = _save_state(environment_state, r.prefs, r.history,
                                           state_file, disk)
              /\ only_updates' = (only_updates /\ r.history = context_history)
              /\ last_op' = [op |-> "remember_preference", input |-> p,
                             disk_ok |-> disk = "ok",
                             ret |-> ~_save_state_raises(disk)]
              /\ remembered' = IF p.key \in KnownPreferenceKeys THEN remembered
                               ELSE [remembered EXCEPT ![p.key] = Live(p.value)]
    /\ n_ops' = n_ops + 1
    /\ UNCHANGED <<xvars, rvars, gvars, dvars, bvars, avars, environment_state, max_history_size, n_calls,
                   updates_log>>

RememberPreference == RememberPreferenceOf(PreferenceChoices) /\ UNCHANGED cvars

RememberAnyPreference == RememberPreferenceOf(AllPreferenceChoices) /\ UNCHANGED cvars

\* await reset_context(), with its _save_state.
ResetContext ==
    /\ n_ops < MaxOps
    /\ environment_state' = EnvironmentState
    /\ user_preferences' = UserPreferences
    /\ context_history' = <<>>
    /\ \E disk \in DiskOutcomes :
          /\ state_file' = _save_state(EnvironmentState, UserPreferences, <<>>,
                                       state_file, disk)
          /\ last_op' = [op |-> "reset_context", input |-> EmptyDict,
                         disk_ok |-> disk = "ok", ret |-> None]
    /\ n_ops' = n_ops + 1
    /\ only_updates' = TRUE
    /\ updates_log' = <<>>
    /\ remembered' = AfterEviction(remembered)
    /\ UNCHANGED <<xvars, rvars, gvars, cvars, dvars, bvars, avars, max_history_size, n_calls>>

\* await _load_state(): the sections the state file holds replace the state.
LoadState ==
    /\ n_ops < MaxOps
    /\ state_file # None
    /\ LET l == _load_state(environment_state, user_preferences, context_history,
                            state_file)
       IN  /\ environment_state' = l.env
           /\ user_preferences' = l.prefs
           /\ context_history' = l.history
    /\ n_ops' = n_ops + 1
    /\ only_updates' = FALSE
    /\ last_op' = [op |-> "_load_state", input |-> EmptyDict, disk_ok |-> TRUE,
                   ret |-> None]
    /\ remembered' = AfterEviction(remembered)
    /\ UNCHANGED <<xvars, rvars, gvars, cvars, dvars, bvars, avars, max_history_size, state_file, n_calls, updates_log>>

\* The process starts again: a fresh StateTracker() is constructed over the
\* state file that the previous one left, with the same history cap.
NewStateTracker ==
    /\ n_ops < MaxOps
    /\ LET t == StateTracker(state_file)
       IN  /\ environment_state' = t.env
           /\ user_preferences' = t.prefs
           /\ context_history' = t.history
    /\ n_ops' = n_ops + 1
    /\ only_updates' = FALSE
    /\ last_op' = [op |-> "StateTracker", input |-> EmptyDict, disk_ok |-> TRUE,
                   ret |-> None]
    /\ remembered' = AfterEviction(remembered)
    /\ UNCHANGED <<xvars, rvars, gvars, cvars, dvars, bvars, avars, max_history_size, state_file, n_calls, updates_log>>

NextTracker ==
    UpdateContext \/ RememberPreference \/ ResetContext \/ LoadState \/ NewStateTracker

\* The comfort of a temperature difference with the bounds exchanged for
\* inclusive ones.
ComfortInclusive(temp_diff) ==
    IF temp_diff >= 3 THEN "uncomfortable"
    ELSE IF temp_diff >= 1 THEN "slightly_uncomfortable"
    ELSE "comfortable"

\* _derive_context_insights: the comfort of a temperature difference.
Comfort(temp_diff) ==
    IF temp_diff > 3 THEN "uncomfortable"
    ELSE IF temp_diff > 1 THEN "slightly_uncomfortable"
    ELSE "comfortable"

\* abs(x).
abs(x) == IF x < 0 THEN 0 - x ELSE x

\* _derive_context_insights, at the hour datetime.now() gives.
_derive_context_insights(env, prefs, current_hour) ==
    LET temp_diff == abs(env.temperature - prefs.preferred_temperature)
        windows_open == env.windows_left = "open" \/ env.windows_right = "open"
    IN  [temperature_comfort |-> Comfort(temp_diff),
         music_status |-> IF env.music_playing THEN "playing" ELSE "stopped",
         ventilation |-> IF windows_open THEN "natural" ELSE "climate_controlled",
         time_period |-> IF 6 <= current_hour /\ current_hour < 12 THEN "morning"
                         ELSE IF 12 <= current_hour /\ current_hour < 18 THEN "afternoon"
                         ELSE IF 18 <= current_hour /\ current_hour < 22 THEN "evening"
                         ELSE "night"]

\* The hours of the day at which the insights are derived: the first hour of
\* each period and the last hour of the night.
Hours == {0, 5, 6, 12, 18, 22}

\* The tool results that move the temperature around the preferred one and
\* open and close the windows.
InsightToolResults ==
    {<<[tool |-> "set_temperature", arguments |-> [temperature |-> t],
        result |-> [success |-> TRUE], success |-> TRUE]>> : t \in {18, 19, 20, 21, 23}}
    \cup {<<[tool |-> "open_window", arguments |-> [side |-> side, action |-> action],
             result |-> [success |-> TRUE], success |-> TRUE]>> :
          side \in {"left", "right"}, action \in {"open", "closed"}}

\* The preferred temperatures a user has remembered.
InsightPreferences == {[key |-> "preferred_temperature", value |-> 24]}

\* The update_context calls that change the temperature and the windows.
UpdateContextForInsights == UpdateContextOf(InsightToolResults)

\* The remember_preference calls that change the preferred temperature.
RememberPreferredTemperature == RememberPreferenceOf(InsightPreferences) /\ UNCHANGED cvars

\* One _derive_context_insights call.
DeriveContextInsights ==
    /\ n_ops < MaxOps
    /\ \E current_hour \in Hours :
          last_op' = [op |-> "_derive_context_insights", input |-> current_hour,
                      disk_ok |-> TRUE,
                      ret |-> _derive_context_insights(environment_state,
                                                       user_preferences, current_hour)]
    /\ n_ops' = n_ops + 1
    /\ UNCHANGED <<xvars, rvars, gvars, cvars, dvars, bvars, avars, environment_state,
                   user_preferences, context_history, max_history_size, state_file,
                   n_calls, only_updates, updates_log, remembered>>

NextInsights == UpdateContextForInsights \/ RememberPreferredTemperature \/ DeriveContextInsights

NextPreferences ==
    RememberAnyPreference \/ UpdateContextWithoutTools \/ ResetContext \/ NewStateTracker

\* ------------------------------------- concurrent remember_preference calls

\* The task sets handed to asyncio.gather: at least two remember_preference
\* calls, with distinct keys.
TaskSets ==
    {S \in SUBSET AllPreferenceChoices :
        /\ Cardinality(S) >= 2
        /\ Cardinality(S) <= MaxTasks
        /\ \A p, q \in S : p.key = q.key => p = q}

\* results = await asyncio.gather(*tasks, return_exceptions=True) starts: the
\* tasks are created, none has run yet.
GatherStarts ==
    /\ pending = {}
    /\ gathered = <<>>
    /\ \E S \in TaskSets :
          /\ n_ops + Cardinality(S) <= MaxOps
          /\ pending' = S
    /\ UNCHANGED <<xvars, rvars, gvars, dvars, bvars, svars, avars, gathered>>

\* One task runs. remember_preference awaits only _save_state, which awaits
\* nothing, so the coroutine never yields to the event loop: a task that has
\* started runs to its return before any other task runs.
TaskRuns ==
    \E p \in pending :
        /\ RememberPreferenceOf({p})
        /\ pending' = pending \ {p}
        /\ gathered' = Append(gathered, [key |-> p.key, value |-> p.value,
                                         result |-> last_op'.ret])

\* gather returns the results once every task has finished.
GatherReturns ==
    /\ pending = {}
    /\ gathered # <<>>
    /\ gathered' = <<>>
    /\ UNCHANGED <<xvars, rvars, gvars, dvars, bvars, svars, avars, pending>>

NextConcurrent == GatherStarts \/ TaskRuns \/ GatherReturns

\* ------------------------------------------ update rules of the state tracker

\* No _update_state_from_tool call has been made yet.
NoApplication ==
    [tool_name |-> "", args |-> EmptyDict, result |-> EmptyDict,
     before |-> EnvironmentState, updated |-> FALSE]

\* The utterances whose extracted parameters are the arguments of the
\* open_window results that are applied.
AppliedWindowInputs ==
    {"Open the left window for some fresh air", "close the right window",
     "Roll up the windows", "the window"}

\* The (tool_name, args, result) triples handed to _update_state_from_tool:
\* every tool with an update rule, with and without the argument the rule
\* reads, and tools with no rule.
ApplyChoices ==
    {[tool_name |-> "set_temperature", args |-> [temperature |-> 24],
      result |-> [success |-> TRUE]],
     [tool_name |-> "set_temperature", args |-> EmptyDict,
      result |-> [current_temperature |-> 23]],
     [tool_name |-> "set_temperature", args |-> EmptyDict, result |-> None],
     [tool_name |-> "set_music", args |-> [track |-> "Blue in Green"],
      result |-> [success |-> TRUE]],
     [tool_name |-> "play_spotify", args |-> EmptyDict, result |-> [track |-> "So What"]],
     [tool_name |-> "open_window", args |-> EmptyDict, result |-> [success |-> TRUE]],
     [tool_name |-> "adjust_seat", args |-> [position |-> "forward"],
      result |-> [success |-> TRUE]],
     [tool_name |-> "get_weather", args |-> EmptyDict,
      result |-> [temperature |-> 25, condition |-> "sunny"]],
     [tool_name |-> "get_location", args |-> EmptyDict,
      result |-> [latitude |-> 410082, longitude |-> 289784, location |-> "Istanbul"]],
     [tool_name |-> "talk", args |-> [message |-> "hello"], result |-> [success |-> TRUE]],
     [tool_name |-> "unknown_tool", args |-> [side |-> "left"],
      result |-> [success |-> TRUE]]}
    \cup {[tool_name |-> "open_window", args |-> WindowParameters(lower(text)),
           result |-> [success |-> TRUE]] : text \in AppliedWindowInputs}

\* state_updated = self._update_state_from_tool(tool_name, args, result): the
\* environment state is changed in place and the return value is kept.
UpdateStateFromTool ==
    /\ \E c \in ApplyChoices :
          LET u == _update_state_from_tool(environment_state, c.tool_name, c.args, c.result)
          IN  /\ environment_state' = u.env
              /\ applied' = [tool_name |-> c.tool_name, args |-> c.args,
                             result |-> c.result, before |-> environment_state,
                             updated |-> u.updated]
    /\ UNCHANGED <<xvars, rvars, cvars, dvars, bvars, avars, user_preferences, context_history,
                   max_history_size, state_file, n_calls, n_ops, only_updates,
                   updates_log, last_op, remembered>>

NextApply == UpdateStateFromTool

\* -------------------------------------------------------------- agent core

\* The tool calls the LLM asks for (at most one function call per reply).
AgentToolCalls ==
    {[name |-> "set_temperature", arguments |-> [temperature |-> 24]],
     [name |-> "get_weather", arguments |-> EmptyDict],
     [name |-> "unknown_tool", arguments |-> EmptyDict]}

\* What _call_llm returns: a text or no content, and at most one tool call (a
\* failed LLM call returns an apology and no tool call).
LlmReplies ==
    {[content |-> c, tool_calls |-> tc] :
        c \in {"reply", NoneStr},
        tc \in {<<>>} \cup {<<t>> : t \in AgentToolCalls}}

NoReply == [content |-> NoneStr, tool_calls |-> <<>>]

\* _execute_tool_calls for the one call of a reply: the wrapper around what
\* execute_tool returned (execute_tool never raises, so "success" is True).
_execute_tool_calls(tool_call, result) ==
    <<[tool |-> tool_call.name, arguments |-> tool_call.arguments, result |-> result,
       success |-> TRUE]>>

\* _generate_final_response: the content with the summary of the successful
\* actions; adding the summary to a content of None raises TypeError.
_generate_final_response(llm, tool_results) ==
    LET successful_actions == SelectSeq(tool_results, LAMBDA r : r.success)
    IN  IF tool_results # <<>> /\ successful_actions # <<>>
        THEN IF llm.content = NoneStr
             THEN [raised |-> TRUE]
             ELSE [raised |-> FALSE, text |-> llm.content,
                   actions |-> [i \in 1..Len(successful_actions) |->
                                   successful_actions[i].tool]]
        ELSE [raised |-> FALSE, text |-> llm.content, actions |-> <<>>]

\* process_input up to the await of execute_tool: the user entry, the reply of
\* the LLM and the start of the tool call, if the reply asks for one.
ProcessInput ==
    /\ a_pc = "idle"
    /\ n_ops < MaxTurns
    /\ conversation_history' =
          Append(conversation_history, [role |-> "user", content |-> n_ops + 1])
    /\ \E llm \in LlmReplies :
          /\ llm_response' = llm
          /\ call' = IF llm.tool_calls # <<>>
                     THEN execute_tool(llm.tool_calls[1].name, llm.tool_calls[1].arguments,
                                       max_retries)
                     ELSE IdleCall
    /\ outcomes' = <<>>
    /\ a_pc' = "tools"
    /\ n_ops' = n_ops + 1
    /\ UNCHANGED <<xvars, rvars, gvars, cvars, max_retries, bvars, environment_state, user_preferences,
                   context_history, max_history_size, state_file, n_calls, only_updates,
                   updates_log, last_op, remembered>>

\* The POST of the turn's tool call is answered.
TurnPostAttempt ==
    /\ a_pc = "tools"
    /\ PostAttempt

\* process_input from the return of execute_tool to its own return: the final
\* response, the assistant entry and update_context; an exception on the way
\* ends the turn with the apology of the except clause.
FinishTurn ==
    /\ a_pc = "tools"
    /\ llm_response.tool_calls = <<>> \/ call.pc = "done"
    /\ LET tool_results == IF llm_response.tool_calls = <<>>
                           THEN <<>>
                           ELSE _execute_tool_calls(llm_response.tool_calls[1], call.ret)
           response_message == _generate_final_response(llm_response, tool_results)
           u == update_context(environment_state, context_history, max_history_size,
                               n_ops, response_message, tool_results)
       IN  IF response_message.raised
           THEN UNCHANGED <<conversation_history, environment_state, context_history,
                            state_file, n_calls, updates_log>>
           ELSE /\ conversation_history' =
                      Append(conversation_history,
                             [role |-> "assistant", content |-> response_message,
                              tool_calls |-> tool_results])
                /\ environment_state' = u.env
                /\ context_history' = u.history
                /\ \E disk \in DiskOutcomes :
                      state_file' = IF u.state_updated
                                    THEN _save_state(u.env, user_preferences, u.history,
                                                     state_file, disk)
                                    ELSE state_file
                /\ n_calls' = n_calls + 1
                /\ updates_log' = Append(updates_log, n_ops)
    /\ a_pc' = "idle"
    /\ call' = IdleCall
    /\ outcomes' = <<>>
    /\ llm_response' = NoReply
    /\ UNCHANGED <<xvars, rvars, gvars, cvars, max_retries, bvars, user_preferences, max_history_size, n_ops,
                   only_updates, last_op, remembered>>

NextAgent == ProcessInput \/ TurnPostAttempt \/ FinishTurn

\* ---------------------------------------------------------- specifications

\* The state after construction: no call in flight, no batch, a state tracker
\* that has loaded the state file it found, if any. RETRY_ATTEMPTS configures at least one
\* attempt (with none, _make_http_request posts nothing and returns None).
Init ==
    /\ max_retries \in 1..MaxRetries
    /\ call = IdleCall
    /\ outcomes = <<>>
    /\ stubbed = FALSE
    /\ b_pc = "idle"
    /\ tool_calls = <<>>
    /\ tasks = <<>>
    /\ completed = <<>>
    /\ processed_results = <<>>
    /\ state_file \in InitialStateFiles
    /\ environment_state = StateTracker(state_file).env
    /\ user_preferences = StateTracker(state_file).prefs
    /\ context_history = StateTracker(state_file).history
    /\ max_history_size \in 1..MaxHistorySize
    /\ n_calls = 0
    /\ n_ops = 0
    /\ only_updates = TRUE
    /\ updates_log = <<>>
    /\ last_op = NoCall
    /\ remembered = [k \in CustomKeys |-> NeverRemembered]
    /\ a_pc = "idle"
    /\ conversation_history = <<>>
    /\ llm_response = NoReply
    /\ applied = NoApplication
    /\ pending = {}
    /\ gathered = <<>>
    /\ classified_input = ""
    /\ intent_result = None
    /\ router_call = NoRouterCall

\* The dispatcher on its own: the state tracker plays no part and has found
\* no state file.
InitDispatcher == Init /\ state_file = None

\* The state tracker on its own: the dispatcher plays no part and has its
\* largest retry configuration.
InitTracker == Init /\ max_retries = MaxRetries

\* One execute_tool call after another on the dispatcher.
SpecDispatch == InitDispatcher /\ [][NextDispatch]_vars

\* One batch after another, on the dispatcher or on the stub of the batch test.
SpecBatch == InitDispatcher /\ [][NextBatch]_vars

\* The operations of the state tracker, called one after another.
SpecTracker == InitTracker /\ [][NextTracker]_vars

\* One process_input turn after another on the agent core.
SpecAgent == Init /\ [][NextAgent]_vars

\* One _update_state_from_tool call after another on the environment state.
SpecApply == InitTracker /\ [][NextApply]_vars

\* The preferences of a state tracker that found no state file: every kind of
\* preference is remembered, between turns without tool calls, resets and
\* restarts.
InitPreferences == InitTracker /\ state_file = None

SpecPreferences == InitPreferences /\ [][NextPreferences]_vars

\* One asyncio.gather of remember_preference calls after another, on a state
\* tracker that found no state file.
SpecConcurrent == InitPreferences /\ [][NextConcurrent]_vars

\* The intent router on its own: classification reads no state.
InitRouter == InitPreferences /\ max_history_size = MaxHistorySize

SpecRouter == InitRouter /\ [][NextRouter]_vars

\* The derived insights of a state tracker that found no state file.
InitInsights == InitPreferences /\ max_history_size = MaxHistorySize

SpecInsights == InitInsights /\ [][NextInsights]_vars

\* route_intent and _extract_parameters on their own.
SpecRoute == InitRouter /\ [][NextRoute]_vars

\* ================================================== claims on the agent turn

\* C1 (as claimed): the end of a turn whose tool call came back from the
\* dispatcher with success = false changes no field of the environment state.
C1_FailedCallLeavesEnvironment ==
    [][(/\ a_pc = "tools"
        /\ a_pc' = "idle"
        /\ llm_response.tool_calls # <<>>
        /\ call.pc = "done"
        /\ "success" \in DOMAIN call.ret
        /\ call.ret.success = FALSE)
          => environment_state' = environment_state]_vars

\* ================================================== claims on the dispatcher

AllOutcomesAre(o) == \A i \in 1..Len(outcomes) : outcomes[i] = o

\* C2 (as claimed): whatever the tool, the parameters, the attempt count and the
\* backend's answers, execute_tool returns a mapping with a boolean "success".
C2_ReturnsSuccessField ==
    call.pc = "done" =>
        /\ "success" \in DOMAIN call.ret
        /\ call.ret.success \in BOOLEAN

\* C3: against a backend whose every POST ends in a connection failure, a mapped
\* tool is posted exactly max_retries times, never more, and the call then
\* returns the tool's mock response (success and mock true; for set_temperature
\* the requested temperature).
C3_ConnectFailuresEndInMock ==
    (call.pc # "idle" /\ call.tool_name \in MappedTools /\ AllOutcomesAre("connect_error")) =>
        /\ call.posts = Len(outcomes)
        /\ call.posts <= max_retries
        /\ (call.pc = "done") <=> (call.posts = max_retries)
        /\ call.pc = "done" =>
              /\ call.mocks = 1
              /\ {"success", "mock"} \subseteq DOMAIN call.ret
              /\ call.ret.success = TRUE
              /\ call.ret.mock = TRUE
              /\ call.ret = mock_responses(call.parameters)[call.tool_name]
              /\ (call.tool_name = "set_temperature" /\ "temperature" \in DOMAIN call.parameters)
                    => call.ret.current_temperature = call.parameters.temperature

C3_Witness ==
    /\ call.pc = "done"
    /\ call.tool_name = "set_temperature"
    /\ call.parameters = [temperature |-> 24]
    /\ max_retries = 3
    /\ outcomes = <<"connect_error", "connect_error", "connect_error">>
    /\ call.ret.current_temperature = 24

\* C4 (as claimed): any 2xx answer to a POST ends the call with that answer's
\* JSON body, so a 2xx answer is always the last answer of a call.
C4_Any2xxIsSuccess ==
    \A i \in 1..Len(outcomes) :
        outcomes[i] \in {"200", "2xx"} =>
            /\ i = Len(outcomes)
            /\ call.pc = "done"
            /\ "live" \in DOMAIN call.ret

\* C5 (as claimed): in a finished call, putting a 404 answer in the place of any
\* connection failure gives the same number of POSTs and the same result.
C5_NotFoundSameAsConnectError ==
    call.pc = "done" =>
        \A i \in 1..Len(outcomes) :
            outcomes[i] = "connect_error" =>
                LET r == RunScript(execute_tool(call.tool_name, call.parameters, max_retries),
                                   [outcomes EXCEPT ![i] = "404"], max_retries)
                IN  /\ r.posts = call.posts
                    /\ r.ret = call.ret

\* C5 (amended): a 404 answer ends the call at once with the tool's mock
\* response and no further POST, at whichever attempt it comes; it is the
\* response a connection failure yields at the last attempt, so the two agree in
\* POSTs and result exactly when the connection failure replaced is the one of
\* attempt max_retries.
C5_NotFoundMocksAtOnce ==
    /\ \A i \in 1..Len(outcomes) :
          outcomes[i] = "404" =>
              /\ i = Len(outcomes)
              /\ call.pc = "done"
              /\ call.posts = i
              /\ call.mocks = 1
              /\ call.ret = mock_responses(call.parameters)[call.tool_name]
    /\ (call.pc = "done" /\ Len(outcomes) = max_retries
            /\ outcomes[max_retries] = "connect_error") =>
          LET r == RunScript(execute_tool(call.tool_name, call.parameters, max_retries),
                             [outcomes EXCEPT ![max_retries] = "404"], max_retries)
          IN  /\ r.posts = call.posts
              /\ r.ret = call.ret

C5_Witness ==
    /\ call.pc = "done"
    /\ max_retries = 3
    /\ outcomes = <<"connect_error", "404">>
    /\ call.posts = 2
    /\ call.ret.mock = TRUE

\* C6: against a backend whose every POST answers a non-2xx status other than
\* 404, the call is posted exactly max_retries times and only then returns
\* success = false with the error text and the tool name, never a mock response.
C6_StatusErrorsEndInFailure ==
    (call.pc # "idle" /\ call.tool_name \in MappedTools /\ AllOutcomesAre("status")) =>
        /\ call.posts = Len(outcomes)
        /\ call.posts <= max_retries
        /\ call.mocks = 0
        /\ (call.pc = "done") <=> (call.posts = max_retries)
        /\ call.pc = "done" =>
              /\ {"success", "error", "tool"} \subseteq DOMAIN call.ret
              /\ call.ret.success = FALSE
              /\ call.ret.error = ErrorText("status")
              /\ call.ret.tool = call.tool_name
              /\ "mock" \notin DOMAIN call.ret

C6_Witness ==
    /\ call.pc = "done"
    /\ max_retries = 3
    /\ outcomes = <<"status", "status", "status">>
    /\ call.ret.success = FALSE

\* C7: a call with a tool name that no backend serves returns success = false
\* with the "not found" error, posts nothing and never reaches the mock table.
C7_UnknownToolFailsWithoutRequest ==
    (call.pc # "idle" /\ call.tool_name \notin MappedTools) =>
        /\ call.pc = "done"
        /\ call.posts = 0
        /\ call.mocks = 0
        /\ outcomes = <<>>
        /\ {"success", "error"} \subseteq DOMAIN call.ret
        /\ call.ret.success = FALSE
        /\ call.ret.error = ErrorText("not_found")
        /\ "mock" \notin DOMAIN call.ret

C7_Witness ==
    /\ call.pc = "done"
    /\ call.tool_name = "unknown_tool"
    /\ call.ret.success = FALSE

\* ======================================================= claims on the batch

\* The result belongs to the tool call: it is the mock response of that call, or
\* it names the tool (and, for a live body, the parameters) of that call.
BelongsTo(r, tc) ==
    \/ r = None
    \/ /\ "mock" \in DOMAIN r
       /\ r = mock_responses(tc.parameters)[tc.name]
    \/ /\ "mock" \notin DOMAIN r
       /\ "tool" \in DOMAIN r
       /\ r.tool = tc.name
       /\ "live" \in DOMAIN r => r.parameters = tc.parameters

\* C8: a batch of k tool calls returns k results; result i is what call i
\* returned, whatever the order in which the calls finished; a call that failed
\* or raised is reported at its own index as success = false with the error and
\* the name of its tool, next to the results of the other calls.
C8_BatchResultsByIndex ==
    b_pc = "done" =>
        /\ Len(processed_results) = Len(tool_calls)
        /\ \A i \in 1..Len(tool_calls) :
              /\ tasks[i].tool_name = tool_calls[i].name
              /\ tasks[i].parameters = tool_calls[i].parameters
              /\ IF IsException(tasks[i].ret)
                 THEN processed_results[i] =
                          [success |-> FALSE, error |-> tasks[i].ret.exception,
                           tool |-> tool_calls[i].name]
                 ELSE processed_results[i] = tasks[i].ret
              /\ ("error" \in DOMAIN processed_results[i]) =>
                    /\ processed_results[i].success = FALSE
                    /\ processed_results[i].tool = tool_calls[i].name
              /\ ~stubbed => BelongsTo(processed_results[i], tool_calls[i])

C8_Witness ==
    /\ b_pc = "done"
    /\ ~stubbed
    /\ Len(tool_calls) = 2
    /\ tool_calls[1].name = "set_temperature"
    /\ tool_calls[2].name = "invalid_tool"
    /\ completed = <<2, 1>>
    /\ "live" \in DOMAIN processed_results[1]
    /\ processed_results[1].success = TRUE
    /\ processed_results[2].success = FALSE
    /\ processed_results[2].tool = "invalid_tool"

\* =============================================== claims on the state tracker

\* C9 (as claimed): the context history never holds more than max_history_size
\* entries.
C9_HistoryWithinCap == Len(context_history) <= max_history_size

Min(a, b) == IF a <= b THEN a ELSE b

\* C10: while only update_context has touched the history since it was empty,
\* after N calls the history holds exactly the entries of the last
\* min(N, max_history_size) calls, in call order: every call appended one entry,
\* whether or not it changed the state, and the oldest entries were evicted.
C10_UpdatesKeepNewestEntries ==
    only_updates =>
        LET N == Len(updates_log)
            m == Min(N, max_history_size)
        IN  /\ Len(context_history) = m
            /\ \A k \in 1..m : context_history[k].user_input = updates_log[N - m + k]

C10_Witness ==
    /\ only_updates
    /\ max_history_size = 3
    /\ Len(updates_log) = 4
    /\ Len(context_history) = 3
    /\ context_history[1].user_input = updates_log[2]
    /\ context_history[3].user_input = updates_log[4]
    /\ context_history[3].tool_results = <<>>
    /\ context_history[2].state_snapshot # context_history[1].state_snapshot

\* The values the windows_left and windows_right fields are declared to hold.
WindowStates == {"open", "closed", "partial"}

\* C11 (as claimed): in every reachable state windows_left and windows_right
\* each hold one of open, closed, partial, also after an open_window result
\* whose action the parameter extractor produced has been applied.
C11_WindowsHoldDeclaredValues ==
    /\ environment_state.windows_left \in WindowStates
    /\ environment_state.windows_right \in WindowStates

\* ================================================ claims on the update rules

\* The EnvironmentState fields that the update rule of a tool names; for
\* open_window they depend on the side argument.
UpdateRuleFields(tool_name, args) ==
    CASE tool_name = "set_temperature" -> {"temperature"}
      [] tool_name \in {"set_music", "play_spotify"} -> {"current_track", "music_playing"}
      [] tool_name = "open_window" ->
            IF "side" \notin DOMAIN args THEN {"windows_left", "windows_right"}
            ELSE IF args.side = "left" THEN {"windows_left"}
            ELSE IF args.side = "right" THEN {"windows_right"}
            ELSE {"windows_left", "windows_right"}
      [] tool_name = "adjust_seat" -> {"seat_position"}
      [] tool_name = "get_weather" -> {"weather_temperature", "weather_condition"}
      [] tool_name = "get_location" -> {"latitude", "longitude", "location"}
      [] OTHER -> {}

\* C12: applying a tool result changes only the EnvironmentState fields named
\* in the update rule of that tool. open_window with side = left sets
\* windows_left to the action, leaves windows_right and every other field as
\* they were (and the same with left and right exchanged) and reports true; a
\* tool name with no update rule changes no field and reports false.
C12_OnlyRuleFieldsChange ==
    applied.tool_name # "" =>
        LET rule == UpdateRuleFields(applied.tool_name, applied.args)
        IN  /\ \A f \in DOMAIN environment_state \ rule :
                  environment_state[f] = applied.before[f]
            /\ (applied.tool_name = "open_window" /\ "side" \in DOMAIN applied.args) =>
                  /\ applied.updated
                  /\ applied.args.side = "left" =>
                        environment_state.windows_left = Get(applied.args, "action", "open")
                  /\ applied.args.side = "right" =>
                        environment_state.windows_right = Get(applied.args, "action", "open")
            /\ rule = {} => (~applied.updated /\ environment_state = applied.before)

\* An open_window result with side = left was applied when the right window had
\* been set before: the left window changed and the right window kept its value.
C12_Witness ==
    /\ applied.tool_name = "open_window"
    /\ applied.args = [side |-> "left", action |-> "open"]
    /\ applied.updated
    /\ applied.before.windows_left = "closed"
    /\ applied.before.windows_right = "close"
    /\ applied.before.temperature = 24
    /\ environment_state = [applied.before EXCEPT !.windows_left = "open"]

\* ================================================== claims on persistence

\* The last call on the state tracker ended with a _save_state whose write
\* succeeded.
LastCallSaved ==
    /\ last_op.disk_ok
    /\ \/ last_op.op \in {"remember_preference", "reset_context"}
       \/ last_op.op = "update_context" /\ last_op.ret = TRUE

\* A fresh StateTracker is constructed in this step.
FreshTrackerStep == last_op'.op = "StateTracker" /\ n_ops' = n_ops + 1

CurrentSnapshot ==
    _save_state(environment_state, user_preferences, context_history, state_file, "ok")

\* C14 (as claimed): after each completed update_context, remember_preference
\* or reset_context whose disk worked, the state file holds the EnvironmentState
\* and the UserPreferences now in memory and the newest SavedHistorySize
\* entries of the context history now in memory.
C14_FileHoldsStateAfterMutation ==
    (/\ last_op.op \in {"update_context", "remember_preference", "reset_context"}
     /\ last_op.disk_ok)
        => state_file = CurrentSnapshot

\* A call on the state tracker completes in this step with a disk that fails.
FailingWriteStep(op) ==
    /\ n_ops' = n_ops + 1
    /\ last_op'.op = op
    /\ ~last_op'.disk_ok

\* C15: a failing disk write never aborts an operation. update_context,
\* remember_preference and reset_context whose write fails return what they
\* return when the write succeeds (whether the state was updated, True, None)
\* and leave in memory the state that they leave when the write succeeds.
C15_FailingWriteChangesNothingElse ==
    [][/\ FailingWriteStep("update_context") =>
             LET u == update_context(environment_state, context_history,
                                     max_history_size, n_calls + 1, "ok", last_op'.input)
             IN  /\ last_op'.ret = u.state_updated
                 /\ environment_state' = u.env
                 /\ context_history' = u.history
                 /\ user_preferences' = user_preferences
       /\ FailingWriteStep("remember_preference") =>
             LET r == remember_preference(user_preferences, context_history,
                                          last_op'.input.key, last_op'.input.value)
             IN  /\ last_op'.ret = TRUE
                 /\ user_preferences' = r.prefs
                 /\ context_history' = r.history
                 /\ environment_state' = environment_state
       /\ FailingWriteStep("reset_context") =>
             /\ last_op'.ret = None
             /\ environment_state' = EnvironmentState
             /\ user_preferences' = UserPreferences
             /\ context_history' = <<>>]_vars

\* A preference was remembered while json.dump failed: the call returned True,
\* the preference is in memory, and the file holds no document.
C15_Witness ==
    /\ last_op.op = "remember_preference"
    /\ ~last_op.disk_ok
    /\ last_op.ret = TRUE
    /\ last_op.input.key = "preferred_temperature"
    /\ user_preferences.preferred_temperature = 24
    /\ state_file = TruncatedFile

\* ================================================== claims on preferences

\* What get_preference returned is a value of the given type, equal to the
\* given value.
Returns(returned, type, value) ==
    /\ "type" \in DOMAIN returned
    /\ returned.type = type
    /\ returned.value = value

\* C16 (as claimed): for a key outside the known preference keys,
\* remember_preference returns True and appends an entry tagged as a preference
\* with the key and the value; while no history entry has been dropped since
\* the key was last remembered, get_preference of the key returns the value
\* last remembered for it, whatever other keys were remembered in between; and
\* get_preference of a key never remembered returns None.
C16_CustomKeyReturnsLastValue ==
    /\ (last_op.op = "remember_preference"
         /\ last_op.input.key \notin KnownPreferenceKeys) =>
            /\ last_op.ret = TRUE
            /\ context_history # <<>>
            /\ context_history[Len(context_history)] =
                  [type |-> "preference", key |-> last_op.input.key,
                   value |-> last_op.input.value]
    /\ \A k \in CustomKeys :
          /\ remembered[k].status = "live" =>
                Returns(get_preference(user_preferences, context_history, k),
                        "int", remembered[k].value)
          /\ remembered[k].status = "never" =>
                get_preference(user_preferences, context_history, k) = None

\* The Python type of the value of a known preference key.
KnownValueType(key) ==
    CASE key = "preferred_temperature" -> "float"
      [] key = "tts_enabled" -> "bool"
      [] OTHER -> "str"

\* C17 (as claimed): after remember_preference(key, v) with one of the keys
\* that remember_preference knows, get_preference with that same key returns v.
C17_KnownKeyReturnsRememberedValue ==
    (last_op.op = "remember_preference" /\ last_op.input.key \in KnownPreferenceKeys) =>
        Returns(get_preference(user_preferences, context_history, last_op.input.key),
                KnownValueType(last_op.input.key), last_op.input.value)

\* The Python type of the value remembered under a key in this model.
RememberedValueType(key) ==
    IF key \in KnownPreferenceKeys THEN KnownValueType(key) ELSE "int"

\* C18 (as claimed): when several remember_preference calls with distinct keys
\* have run concurrently, every call has returned True (none raised) and
\* get_preference returns, for each key, the value remembered for it.
C18_ConcurrentRemembersAllKept ==
    (pending = {} /\ gathered # <<>>) =>
        \A i \in 1..Len(gathered) :
            /\ gathered[i].result = TRUE
            /\ Returns(get_preference(user_preferences, context_history,
                                      gathered[i].key),
                       RememberedValueType(gathered[i].key), gathered[i].value)

\* The intents that have patterns.
PatternIntents == {IntentOrder[i] : i \in 1..Len(IntentOrder)}

\* The patterns that match the lower-cased text, each named once by its intent
\* and its place in the intent's list.
MatchingPatterns(text) ==
    UNION {{<<intent, i>> : i \in {j \in 1..Len(intent_patterns[intent]) :
                                      re_search(intent_patterns[intent][j], lower(text))}} :
           intent \in PatternIntents}

\* Some pattern matches the text, and all that do belong to one intent.
SingleIntent(text) ==
    /\ MatchingPatterns(text) # {}
    /\ \A p, q \in MatchingPatterns(text) : p[1] = q[1]

\* C19: when all the patterns that match an input belong to one intent,
\* _classify_intent returns that intent, and its confidence is the number of
\* that intent's matching patterns over the number of that intent's patterns,
\* more than 0 and at most 1.
C19_SingleIntentConfidence ==
    (intent_result # None /\ SingleIntent(classified_input)) =>
        LET matching == MatchingPatterns(classified_input)
            intent == (CHOOSE p \in matching : TRUE)[1]
            total == Len(intent_patterns[intent])
        IN  /\ intent_result.intent_type = intent
            /\ intent_result.confidence = [num |-> Cardinality(matching), den |-> total]
            /\ 0 < Cardinality(matching)
            /\ Cardinality(matching) <= total

\* An input that two patterns of one intent match, and no other pattern, has
\* been classified.
C19_Witness ==
    /\ intent_result # None
    /\ SingleIntent(classified_input)
    /\ Cardinality(MatchingPatterns(classified_input)) = 2

\* The fields of an IntentResult.
IntentResultFields ==
    {"intent_type", "confidence", "suggested_tools", "extracted_parameters",
     "predicted_action"}

\* C20: every _classify_intent call returns an IntentResult, for the empty
\* input too, and when no pattern of any intent matches the input the result
\* is the intent conversation with confidence exactly 0.1 and suggested tools
\* that include talk.
C20_AlwaysClassifiesFallbackConversation ==
    /\ intent_result = None => classified_input = ""
    /\ intent_result # None =>
          /\ DOMAIN intent_result = IntentResultFields
          /\ intent_result.intent_type \in PatternIntents
          /\ MatchingPatterns(classified_input) = {} =>
                /\ intent_result.intent_type = "conversation"
                /\ intent_result.confidence = [num |-> 1, den |-> 10]
                /\ \E i \in 1..Len(intent_result.suggested_tools) :
                      intent_result.suggested_tools[i] = "talk"

\* The empty input, which no pattern matches, has been classified.
C20_Witness ==
    /\ intent_result # None
    /\ classified_input = ""
    /\ MatchingPatterns(classified_input) = {}

\* The place of an intent in the intent pattern table.
DeclaredAt(intent) == CHOOSE i \in 1..Len(IntentOrder) : IntentOrder[i] = intent

\* The number of patterns of an intent among the matching patterns.
MatchCount(matching, intent) == Cardinality({p \in matching : p[1] = intent})

\* With these matching patterns, the score of intent a is below that of intent b.
ScoresBelow(matching, a, b) ==
    MatchCount(matching, a) * Len(intent_patterns[b])
        < MatchCount(matching, b) * Len(intent_patterns[a])

\* C21: when some pattern matches, _classify_intent returns an intent whose
\* score no intent exceeds, and every intent declared before it in the intent
\* pattern table has a strictly lower score.
C21_MaximalScoreFirstDeclaredWins ==
    LET matching == MatchingPatterns(classified_input)
    IN  (intent_result # None /\ matching # {}) =>
            /\ intent_result.intent_type \in PatternIntents
            /\ \A other \in PatternIntents :
                  /\ ~ScoresBelow(matching, intent_result.intent_type, other)
                  /\ DeclaredAt(other) < DeclaredAt(intent_result.intent_type) =>
                        ScoresBelow(matching, other, intent_result.intent_type)

\* An input on which two intents share the maximal score has been classified.
C21_Witness ==
    LET matching == MatchingPatterns(classified_input)
    IN  /\ intent_result # None
        /\ intent_result.intent_type \in PatternIntents
        /\ \E other \in PatternIntents \ {intent_result.intent_type} :
              /\ MatchCount(matching, other) > 0
              /\ ~ScoresBelow(matching, other, intent_result.intent_type)
              /\ ~ScoresBelow(matching, intent_result.intent_type, other)

\* A text without a numeric degree value that contains both "cold" and "warmer".
ColdAndWarmer(text) ==
    /\ TemperatureMatch(lower(text)) = None
    /\ Contains(lower(text), "cold")
    /\ Contains(lower(text), "warmer")

\* C22 (as claimed): for a temperature_control text without a numeric degree
\* value that contains both "cold" and "warmer", _extract_parameters returns
\* direction = increase.
C22_ColdAndWarmerIncreases ==
    (/\ router_call.op = "_extract_parameters"
     /\ router_call.intent_type = "temperature_control"
     /\ ColdAndWarmer(router_call.user_input)) =>
        /\ "direction" \in DOMAIN router_call.ret
        /\ router_call.ret.direction = "increase"

\* The result route_intent returned for a text, with any context.
Routed == router_call.op = "route_intent" /\ router_call.user_input # NoneStr

\* The places: the words that can follow "navigate to" as a destination.
Places == {"Istanbul"}

\* The trailing courtesy words.
CourtesyWords == {"please"}

\* C23 (as claimed): for "navigate to <place>" followed by trailing courtesy
\* words, route_intent returns intent navigation and a destination equal to
\* the lower-cased place alone.
C23_DestinationWithoutCourtesyWords ==
    \A place \in Places, courtesy \in CourtesyWords :
        (Routed /\ router_call.user_input = "Navigate to " \o place \o " " \o courtesy) =>
            /\ router_call.ret.intent_type = "navigation"
            /\ "destination" \in DOMAIN router_call.ret.extracted_parameters
            /\ router_call.ret.extracted_parameters.destination = lower(place)

\* The text matches one music_control pattern and the conversation pattern
\* with "please", and no other pattern.
MusicAndPlease(text) ==
    LET matching == MatchingPatterns(text)
    IN  /\ Contains(lower(text), "please")
        /\ <<"conversation", 2>> \in matching
        /\ MatchCount(matching, "music_control") = 1
        /\ Cardinality(matching) = 2

\* C24 (as claimed): a text that asks to play music of a named genre with a
\* courtesy word, matching one music_control pattern and the conversation
\* pattern with "please" and no other, is routed to music_control, with the
\* genre extracted and a music tool suggested.
C24_MusicWithCourtesyWordIsMusic ==
    (/\ Routed
     /\ MusicAndPlease(router_call.user_input)
     /\ Contains(lower(router_call.user_input), "play")
     /\ \E g \in 1..Len(genres) : Contains(lower(router_call.user_input), genres[g])) =>
        /\ router_call.ret.intent_type = "music_control"
        /\ "genre" \in DOMAIN router_call.ret.extracted_parameters
        /\ \E g \in 1..Len(genres) :
              /\ Contains(lower(router_call.user_input), genres[g])
              /\ router_call.ret.extracted_parameters.genre = genres[g]
        /\ \E i \in 1..Len(router_call.ret.suggested_tools) :
              router_call.ret.suggested_tools[i] \in {"set_music", "play_spotify"}

\* C25: _derive_context_insights classifies comfort by the difference d
\* between the temperature and the preferred temperature: uncomfortable
\* exactly when d > 3, slightly_uncomfortable exactly when 1 < d <= 3,
\* comfortable exactly when d <= 1; ventilation is natural exactly when a
\* window is "open"; and the call changes nothing of the state tracker.
C25_ComfortBandsAndNoStateChange ==
    [][(last_op'.op = "_derive_context_insights" /\ n_ops' # n_ops) =>
          LET d == IF environment_state.temperature >= user_preferences.preferred_temperature
                   THEN environment_state.temperature - user_preferences.preferred_temperature
                   ELSE user_preferences.preferred_temperature - environment_state.temperature
              insights == last_op'.ret
          IN  /\ insights.temperature_comfort = "uncomfortable" <=> d > 3
              /\ insights.temperature_comfort = "slightly_uncomfortable" <=> (1 < d /\ d <= 3)
              /\ insights.temperature_comfort = "comfortable" <=> d <= 1
              /\ insights.ventilation = "natural" <=>
                    ("open" \in {environment_state.windows_left,
                                 environment_state.windows_right})
              /\ UNCHANGED <<environment_state, user_preferences, context_history,
                             max_history_size, state_file>>]_vars

\* The insights have been derived with the temperature exactly 3 away from the
\* preferred one and one window open.
C25_Witness ==
    /\ last_op.op = "_derive_context_insights"
    /\ environment_state.temperature - user_preferences.preferred_temperature \in {3, 0 - 3}
    /\ environment_state.windows_left = "open"
    /\ environment_state.windows_right # "open"

\* A process_input turn with a tool call returns on this step.
ToolTurnReturns ==
    /\ a_pc = "tools"
    /\ a_pc' = "idle"
    /\ llm_response.tool_calls # <<>>

\* C26 (as claimed): when a process_input turn in which a tool call was
\* executed returns, update_context has been called with the result of that
\* tool call and an assistant entry follows the user entry of the turn in the
\* conversation history, whatever the reply of the LLM was, a function call
\* without text content included.
C26_ToolTurnUpdatesContext ==
    [][ToolTurnReturns =>
          /\ n_calls' = n_calls + 1
          /\ context_history' # <<>>
          /\ LET entry == context_history'[Len(context_history')]
             IN  /\ Len(entry.tool_results) = 1
                 /\ entry.tool_results[1].tool = llm_response.tool_calls[1].name
                 /\ entry.tool_results[1].result = call.ret
          /\ Len(conversation_history') = Len(conversation_history) + 1
          /\ conversation_history'[Len(conversation_history')].role = "assistant"
          /\ conversation_history'[Len(conversation_history)].role = "user"]_vars

\* The transport-level failures of a POST: httpx.ConnectError (connection
\* refused), and the other exceptions of the POST, which are the connect and
\* read timeouts (httpx.ConnectTimeout, httpx.ReadTimeout).
TransportFailures == {"connect_error", "exception"}

\* C27 (as claimed): a call whose POSTs all failed at transport level has made
\* every attempt and is answered with the mock response of its tool; and a call
\* that returns a failure returns tool not found, the mock's own failure, or a
\* non-404 HTTP error.
C27_TransportFailuresRetriedThenMocked ==
    call.pc = "done" =>
        /\ (outcomes # <<>> /\ \A i \in 1..Len(outcomes) : outcomes[i] \in TransportFailures) =>
              /\ Len(outcomes) = max_retries
              /\ call.ret = _handle_offline_server([tool |-> call.tool_name,
                                                    parameters |-> call.parameters])
        /\ ("success" \in DOMAIN call.ret /\ call.ret.success = FALSE
            /\ "mock" \notin DOMAIN call.ret /\ "live" \notin DOMAIN call.ret) =>
              call.ret.error \in {ErrorText("not_found"), ErrorText("status")}

\* C28 (as claimed): the available_tools of a route_intent result hold exactly
\* one descriptor (name, description, parameter schema) for each name in
\* suggested_tools, in the same order, and the dispatcher maps every suggested
\* tool name to a backend.
C28_OneDescriptorPerSuggestedTool ==
    router_call.op = "route_intent" =>
        LET suggested_tools == router_call.ret.suggested_tools
            available_tools == router_call.ret.available_tools
        IN  /\ Len(available_tools) = Len(suggested_tools)
            /\ \A i \in 1..Len(available_tools) :
                  /\ {"name", "description", "parameters"} \subseteq DOMAIN available_tools[i]
                  /\ i <= Len(suggested_tools) => available_tools[i].name = suggested_tools[i]
            /\ \A i \in 1..Len(suggested_tools) :
                  suggested_tools[i] \in DOMAIN tool_server_map

\* The failures of the claim: httpx.ConnectError and a non-404 HTTP error status.
MixedFailures == {"connect_error", "status"}

\* C29: a call whose attempts all failed with connection failures or non-404
\* HTTP errors has made all max_retries attempts, and its last attempt alone
\* decides what it returns: the mock response after a connection failure, the
\* error result after an HTTP error. An attempt answered with 200 is the last
\* one: the call returns the live body at once and never a mock response.
C29_LastAttemptDecides ==
    /\ call.pc = "post" => \A i \in 1..Len(outcomes) : outcomes[i] # "200"
    /\ (call.pc = "done" /\ outcomes # <<>>) =>
          LET last == outcomes[Len(outcomes)]
              payload == [tool |-> call.tool_name, parameters |-> call.parameters]
          IN  /\ (\A i \in 1..Len(outcomes) : outcomes[i] \in MixedFailures) =>
                    /\ Len(outcomes) = max_retries
                    /\ last = "connect_error" => call.ret = _handle_offline_server(payload)
                    /\ last = "status" =>
                          call.ret = ErrorResult(call.tool_name, call.parameters, "status")
              /\ (\E i \in 1..Len(outcomes) : outcomes[i] = "200") =>
                    /\ \A i \in 1..Len(outcomes) : outcomes[i] = "200" => i = Len(outcomes)
                    /\ "live" \in DOMAIN call.ret
                    /\ "mock" \notin DOMAIN call.ret
                    /\ call.mocks = 0

\* A call has returned the mock after an HTTP error followed by a connection
\* failure on its last attempt.
C29_Witness ==
    /\ call.pc = "done"
    /\ Len(outcomes) = max_retries
    /\ max_retries >= 2
    /\ outcomes[1] = "status"
    /\ outcomes[Len(outcomes)] = "connect_error"
    /\ "mock" \in DOMAIN call.ret

\* An update_context call is made on this step.
UpdateContextStep == last_op'.op = "update_context" /\ n_calls' = n_calls + 1

\* C30 (as claimed): a custom-key preference that get_preference returns
\* before an update_context call is returned by it, unchanged, after the call:
\* what remember_preference stored stays retrievable through any number of
\* update_context calls.
C30_CustomPreferenceSurvivesUpdates ==
    [][UpdateContextStep =>
          \A k \in CustomKeys :
              LET before == get_preference(user_preferences, context_history, k)
                  after == get_preference(user_preferences', context_history', k)
              IN  before # None => after = before]_vars

====
